---- MODULE Spec2Model ----
(***************************************************************************)
(* A model of the dendrite room server input handler                      *)
(* (roomserver/input/event.go), of the kinds of input it accepts          *)
(* (roomserver/api/input.go) and of the event authorisation rules of      *)
(* gomatrixserverlib (eventauth.go).                                       *)
(*                                                                         *)
(* Spec      : concurrent InputEventHandler.Handle calls against one       *)
(*             InputEventHandlerDatabase.                                  *)
(* SpecSeq   : Handle calls of a single caller, with every input, and the  *)
(*             same input submitted again.                                 *)
(* SpecAuth  : StateNeededForAuth and Allowed applied to bounded events.   *)
(***************************************************************************)
EXTENDS Integers, Sequences, FiniteSets, TLC

(***************************************************************************)
(* Bounds of the model.                                                    *)
(***************************************************************************)
\* Number of distinct room_id strings that appear in inputs.
NumRooms == 2
\* Event ids are 1..MaxEventID (ordered as the strings they stand for).
MaxEventID == 3
\* Longest State / prev_events list of an input.
MaxLen == 2
\* Number of database calls that may fail with an error in one behaviour.
MaxFailures == 1

\* The goroutines that call Handle concurrently.
Procs == {1, 2}
RoomIDs == 1..NumRooms
EventIDs == 1..MaxEventID
\* The events of the database before the first call: the state events that
\* are persisted, and those among them whose state is known (the others
\* are outliers).  The remaining event ids are unknown to the database.
PersistedEvents == {e \in EventIDs : e < MaxEventID}
EventsWithState == {e \in EventIDs : e + 1 < MaxEventID}

(***************************************************************************)
(* roomserver/api/input.go: the kinds of input.                            *)
(***************************************************************************)
KindOutlier == 1
KindJoin == 2
KindNew == 3
KindBackfill == 4
Kinds == {KindOutlier, KindJoin, KindNew, KindBackfill}

\* All sequences over S of length at most n.
RECURSIVE SeqsUpTo(_, _)
SeqsUpTo(S, n) ==
  IF n = 0 THEN {<<>>}
  ELSE LET shorter == SeqsUpTo(S, n - 1)
       IN shorter \cup {Append(s, x) : s \in {t \in shorter : Len(t) = n - 1}, x \in S}

\* api.InputEvent together with the fields json.Unmarshal extracts from
\* its Event.  hasState is "input.State != nil"; parses is whether
\* json.Unmarshal(event.raw, &event) succeeds.  prepareState reads
\* prev_events only when State is nil, so inputs with State carry none.
InputEvents ==
  { [kind |-> k, roomID |-> r, parses |-> TRUE, hasState |-> TRUE, state |-> st, prevEvents |-> <<>>] :
      k \in Kinds, r \in RoomIDs, st \in SeqsUpTo(EventIDs, MaxLen) }
  \cup
  { [kind |-> k, roomID |-> r, parses |-> TRUE, hasState |-> FALSE, state |-> <<>>, prevEvents |-> pe] :
      k \in Kinds, r \in RoomIDs, pe \in SeqsUpTo(EventIDs, MaxLen) }
  \cup
  { [kind |-> k, roomID |-> r, parses |-> FALSE, hasState |-> FALSE, state |-> <<>>, prevEvents |-> <<>>] :
      k \in Kinds, r \in {1} }

\* The inputs of the concurrent specification: events without prev_events
\* and without State, or whose JSON does not parse.
PlainInputs == {in \in InputEvents : ~in.hasState /\ in.prevEvents = <<>>}

NoInput == [kind |-> 0, roomID |-> 0, parses |-> FALSE, hasState |-> FALSE, state |-> <<>>, prevEvents |-> <<>>]

(***************************************************************************)
(* gomatrixserverlib: strings.  A Go string is the sequence of its         *)
(* characters; the characters of the model and their byte values.          *)
(***************************************************************************)
CharCode ==
  ("!" :> 33) @@ ("$" :> 36) @@ (":" :> 58) @@ ("@" :> 64) @@
  ("a" :> 97) @@ ("b" :> 98) @@ ("c" :> 99) @@ ("e" :> 101) @@
  ("r" :> 114) @@ ("t" :> 116) @@ ("u" :> 117) @@ ("x" :> 120) @@ ("y" :> 121)

\* The < of Go strings: byte-wise lexicographic order.
RECURSIVE StrLess(_, _)
StrLess(a, b) ==
  IF b = <<>> THEN FALSE
  ELSE IF a = <<>> THEN TRUE
  ELSE IF CharCode[Head(a)] # CharCode[Head(b)] THEN CharCode[Head(a)] < CharCode[Head(b)]
  ELSE StrLess(Tail(a), Tail(b))

EmptyString == <<>>
\* User ids "@a:x", "@b:y", and "@a", which has no domain.
UserA == <<"@", "a", ":", "x">>
UserB == <<"@", "b", ":", "y">>
UserNoDomain == <<"@", "a">>
\* Room ids "!r:x" and "!r:y".
RoomX == <<"!", "r", ":", "x">>
RoomY == <<"!", "r", ":", "y">>
\* Event ids "$c:x" and "$e:y", and "$e", which has no domain.
EventC == <<"$", "c", ":", "x">>
EventE == <<"$", "e", ":", "y">>
EventNoDomain == <<"$", "e">>
\* Server names "x" and "y".
DomainX == <<"x">>
DomainY == <<"y">>
\* Third party invite tokens "t" and "u".
TokenT == <<"t">>
TokenU == <<"u">>

\* The users whose membership the auth events can hold.
AuthUsers == {UserA, UserB, UserNoDomain}

\* Index of the first ":" of id, 0 if there is none.
RECURSIVE IndexOfColon(_, _)
IndexOfColon(id, i) ==
  IF i > Len(id) THEN 0
  ELSE IF id[i] = ":" THEN i
  ELSE IndexOfColon(id, i + 1)

\* domainFromID: everything after the first ":" of the id; an error when
\* the id has no ":".
DomainFromID(id) ==
  LET i == IndexOfColon(id, 1)
  IN IF i = 0 THEN [err |-> "InvalidID", domain |-> EmptyString]
     ELSE [err |-> "nil", domain |-> SubSeq(id, i + 1, Len(id))]

(***************************************************************************)
(* gomatrixserverlib: events and the content of the events the auth rules  *)
(* decode.                                                                 *)
(***************************************************************************)
\* An optional string (*string): nil, or a pointer to the string v.
NilString == [present |-> FALSE, v |-> EmptyString]
PtrTo(s) == [present |-> TRUE, v |-> s]

\* A Go map without keys.
EmptyMap == [k \in {} |-> 0]

\* The levels of a m.room.power_levels content with no keys at all.
DefaultPowerLevels ==
  [banLevel |-> 50, inviteLevel |-> 0, kickLevel |-> 50, redactLevel |-> 50,
   userDefaultLevel |-> 0, eventDefaultLevel |-> 0, stateDefaultLevel |-> 50,
   userLevels |-> EmptyMap, eventLevels |-> EmptyMap]

\* The content of an event as the decoders of eventcontent.go see it:
\*   parses        whether json.Unmarshal of the content succeeds
\*   membership    memberContent.Membership
\*   tpi           memberContent.ThirdPartyInvite: "nil", "token" (with a
\*                 signed.token, held in token) or "undecodable"
\*   creator, federate   createContent.Creator and m.federate:
\*                 "nil", "true" or "false"
\*   joinRule      joinRuleContent.JoinRule
\*   levels        powerLevelContent; userLevels and eventLevels are maps
\*                 from user id and event type to level
NoContent ==
  [parses |-> TRUE, membership |-> "", tpi |-> "nil", token |-> EmptyString,
   creator |-> EmptyString, federate |-> "nil", joinRule |-> "",
   levels |-> DefaultPowerLevels]
UnparsableContent == [NoContent EXCEPT !.parses = FALSE]
MemberContent(membership) == [NoContent EXCEPT !.membership = membership]
MemberContentWithToken(membership, token) ==
  [NoContent EXCEPT !.membership = membership, !.tpi = "token", !.token = token]
MemberContentBadInvite(membership) ==
  [NoContent EXCEPT !.membership = membership, !.tpi = "undecodable"]
CreateContent(creator, federate) ==
  [NoContent EXCEPT !.creator = creator, !.federate = federate]
JoinRuleContent(rule) == [NoContent EXCEPT !.joinRule = rule]
PowerLevelContent(levels) == [NoContent EXCEPT !.levels = levels]

\* An Event: what Type(), Sender(), RoomID(), EventID(), StateKey(),
\* PrevEvents(), Redacts() and Content() return.
MkEvent(type, sender, roomID, eventID, stateKey, prevEvents, redacts, content) ==
  [type |-> type, sender |-> sender, roomID |-> roomID, eventID |-> eventID,
   stateKey |-> stateKey, prevEvents |-> prevEvents, redacts |-> redacts,
   content |-> content]

\* Event.StateKeyEquals
StateKeyEquals(event, s) == event.stateKey.present /\ event.stateKey.v = s

(***************************************************************************)
(* eventauth.go: StateNeededForAuth.                                       *)
(***************************************************************************)
\* sort.Strings on Go strings: insertion of x into the sorted sequence s.
RECURSIVE SortedInsertString(_, _)
SortedInsertString(s, x) ==
  IF s = <<>> THEN <<x>>
  ELSE IF ~StrLess(Head(s), x) THEN <<x>> \o s
  ELSE <<Head(s)>> \o SortedInsertString(Tail(s), x)

RECURSIVE SortStringSlice(_)
SortStringSlice(s) ==
  IF s = <<>> THEN <<>> ELSE SortedInsertString(SortStringSlice(Tail(s)), Head(s))

\* data.Swap(i, j) of sort.StringSlice, with the 0-based indexes of the code.
SwapStrings(data, i, j) == [data EXCEPT ![i + 1] = data[j + 1], ![j + 1] = data[i + 1]]

\* The loop of unique counting the distinct values without moving them to
\* the front.
RECURSIVE UniqueSwapsCountOnly(_, _, _)
UniqueSwapsCountOnly(data, i, j) ==
  IF i >= Len(data) THEN [data |-> data, j |-> j]
  ELSE IF StrLess(data[i], data[i + 1])
       THEN UniqueSwapsCountOnly(data, i + 1, j + 1)
       ELSE UniqueSwapsCountOnly(data, i + 1, j)

\* The loop of unique (eventauth.go): i and j are the 0-based indexes of
\* the code.  Returns the data as the swaps leave it and the final j.
RECURSIVE UniqueSwaps(_, _, _)
UniqueSwaps(data, i, j) ==
  IF i >= Len(data) THEN [data |-> data, j |-> j]
  ELSE IF StrLess(data[i], data[i + 1])
       THEN UniqueSwaps(SwapStrings(data, i - 1, j), i + 1, j + 1)
       ELSE UniqueSwaps(data, i + 1, j)

\* members[:unique(sort.StringSlice(members))]: unique returns the length
\* of the data without duplicates, and the caller cuts the slice to it.
UniqueStrings(data) ==
  IF Len(data) = 0 THEN <<>>
  ELSE LET u == UniqueSwaps(data, 1, 0)
       IN SubSeq(SwapStrings(u.data, Len(data) - 1, u.j), 1, u.j + 1)

\* newMemberContentFromEvent: the memberContent of the event, or an error
\* when its content does not decode.
NewMemberContentFromEvent(event) ==
  IF event.content.parses
  THEN [err |-> "nil", membership |-> event.content.membership,
        tpi |-> event.content.tpi, token |-> event.content.token]
  ELSE [err |-> "NotAllowed", membership |-> "", tpi |-> "nil", token |-> EmptyString]

\* thirdPartyInviteToken: the signed.token of the third_party_invite; an
\* error when it does not decode or the token is empty.
ThirdPartyInviteToken(content) ==
  IF content.tpi = "token" /\ content.token # EmptyString
  THEN [err |-> "nil", token |-> content.token]
  ELSE [err |-> "error", token |-> EmptyString]

\* The state of the loop of StateNeededForAuth before the first event.
NoStateNeeded ==
  [Create |-> FALSE, JoinRules |-> FALSE, PowerLevels |-> FALSE,
   members |-> <<>>, thirdpartyinvites |-> <<>>]

\* One iteration of the loop without the join rules of a join.
StateNeededForEventNoJoinRules(acc, event) ==
  IF event.type = "m.room.create" THEN acc
  ELSE IF event.type = "m.room.aliases" THEN [acc EXCEPT !.Create = TRUE]
  ELSE IF event.type = "m.room.member"
  THEN LET content == NewMemberContentFromEvent(event)
       IN IF content.err # "nil" THEN acc
          ELSE [acc EXCEPT
                  !.Create = TRUE,
                  !.PowerLevels = TRUE,
                  !.members = IF event.stateKey.present
                              THEN @ \o <<event.sender, event.stateKey.v>>
                              ELSE @,
                  !.thirdpartyinvites =
                    IF content.tpi # "nil" /\ ThirdPartyInviteToken(content).err = "nil"
                    THEN Append(@, ThirdPartyInviteToken(content).token)
                    ELSE @]
  ELSE [acc EXCEPT !.Create = TRUE, !.PowerLevels = TRUE,
                   !.members = Append(@, event.sender)]

\* One iteration of the loop of StateNeededForAuth: the switch on the type
\* of the event (lines 52-112).
StateNeededForEvent(acc, event) ==
  IF event.type = "m.room.create" THEN acc
  ELSE IF event.type = "m.room.aliases" THEN [acc EXCEPT !.Create = TRUE]
  ELSE IF event.type = "m.room.member"
  THEN LET content == NewMemberContentFromEvent(event)
       IN IF content.err # "nil" THEN acc
          ELSE [acc EXCEPT
                  !.Create = TRUE,
                  !.PowerLevels = TRUE,
                  !.members = IF event.stateKey.present
                              THEN @ \o <<event.sender, event.stateKey.v>>
                              ELSE @,
                  !.JoinRules = IF content.membership = "join" THEN TRUE ELSE @,
                  !.thirdpartyinvites =
                    IF content.tpi # "nil" /\ ThirdPartyInviteToken(content).err = "nil"
                    THEN Append(@, ThirdPartyInviteToken(content).token)
                    ELSE @]
  ELSE [acc EXCEPT !.Create = TRUE, !.PowerLevels = TRUE,
                   !.members = Append(@, event.sender)]

\* The loop over the events, from event i on.
RECURSIVE StateNeededLoop(_, _, _)
StateNeededLoop(acc, events, i) ==
  IF i > Len(events) THEN acc
  ELSE StateNeededLoop(StateNeededForEvent(acc, events[i]), events, i + 1)

\* The end of StateNeededForAuth without the removal of the duplicates.
StateNeededResultNoUnique(acc) ==
  [Create |-> acc.Create, JoinRules |-> acc.JoinRules, PowerLevels |-> acc.PowerLevels,
   Member |-> SortStringSlice(acc.members),
   ThirdPartyInvite |-> SortStringSlice(acc.thirdpartyinvites)]

\* The end of StateNeededForAuth (lines 114-119): the state keys are
\* sorted and the duplicates removed.
StateNeededResult(acc) ==
  [Create |-> acc.Create, JoinRules |-> acc.JoinRules, PowerLevels |-> acc.PowerLevels,
   Member |-> UniqueStrings(SortStringSlice(acc.members)),
   ThirdPartyInvite |-> UniqueStrings(SortStringSlice(acc.thirdpartyinvites))]

\* StateNeededForAuth returns the event types and state_keys needed to
\* authenticate the events.
StateNeededForAuth(events) == StateNeededResult(StateNeededLoop(NoStateNeeded, events, 1))

(***************************************************************************)
(* The AuthEvents a caller passes to Allowed, and the content loaders of   *)
(* eventcontent.go.  Each loader returns its error, the content, and the   *)
(* auth events it asked the AuthEvents for (reads).                        *)
(***************************************************************************)
\* A nil *Event.
NilEvent ==
  MkEvent("", EmptyString, EmptyString, EmptyString, NilString, <<>>, EmptyString, NoContent)

\* One request to the AuthEvents: the event type and the state_key.
Read(type, stateKey) == [type |-> type, stateKey |-> stateKey]

\* AuthEvents.Member(stateKey)
MemberEvent(authEvents, stateKey) ==
  IF stateKey \in DOMAIN authEvents.member THEN authEvents.member[stateKey] ELSE NilEvent

\* The zero createContent.
ZeroCreateContent ==
  [Creator |-> EmptyString, Federate |-> "nil", roomID |-> EmptyString,
   eventID |-> EmptyString, senderDomain |-> EmptyString]

\* newCreateContentFromAuthEvents
NewCreateContentFromAuthEvents(authEvents) ==
  LET createEvent == authEvents.create
      reads == {Read("m.room.create", EmptyString)}
      domain == DomainFromID(createEvent.sender)
      c == [Creator |-> createEvent.content.creator,
            Federate |-> createEvent.content.federate,
            roomID |-> createEvent.roomID,
            eventID |-> createEvent.eventID,
            senderDomain |-> domain.domain]
  IN IF "create" \in authEvents.failing
     THEN [err |-> "LoadError", reads |-> reads, c |-> ZeroCreateContent]
     ELSE IF createEvent = NilEvent
     THEN [err |-> "NotAllowed", reads |-> reads, c |-> ZeroCreateContent]
     ELSE IF ~createEvent.content.parses
     THEN [err |-> "NotAllowed", reads |-> reads, c |-> ZeroCreateContent]
     ELSE [err |-> domain.err, reads |-> reads, c |-> c]

\* createContent.domainAllowed: the domain of the sender of the create
\* event is always allowed; other domains unless m.federate is false.
DomainAllowed(c, domain) ==
  IF domain = c.senderDomain THEN "nil"
  ELSE IF c.Federate = "nil" \/ c.Federate = "true" THEN "nil"
  ELSE "NotAllowed"

\* createContent.userIDAllowed
UserIDAllowed(c, id) ==
  LET domain == DomainFromID(id)
  IN IF domain.err # "nil" THEN domain.err ELSE DomainAllowed(c, domain.domain)

\* newMemberContentFromAuthEvents: the membership of a user without a
\* member event is leave.
NewMemberContentFromAuthEvents(authEvents, userID) ==
  LET memberEvent == MemberEvent(authEvents, userID)
      reads == {Read("m.room.member", userID)}
      content == NewMemberContentFromEvent(memberEvent)
  IN IF "member" \in authEvents.failing
     THEN [err |-> "LoadError", reads |-> reads, membership |-> ""]
     ELSE IF memberEvent = NilEvent
     THEN [err |-> "nil", reads |-> reads, membership |-> "leave"]
     ELSE [err |-> content.err, reads |-> reads, membership |-> content.membership]

\* newPowerLevelContentFromEvent
NewPowerLevelContentFromEvent(event) ==
  IF event.content.parses
  THEN [err |-> "nil", levels |-> event.content.levels]
  ELSE [err |-> "NotAllowed", levels |-> DefaultPowerLevels]

\* newPowerLevelContentFromAuthEvents: without a power levels event the
\* levels are the defaults and the creator of the room has level 100.
NewPowerLevelContentFromAuthEvents(authEvents, creatorID) ==
  LET powerLevelsEvent == authEvents.powerLevels
      reads == {Read("m.room.power_levels", EmptyString)}
      content == NewPowerLevelContentFromEvent(powerLevelsEvent)
  IN IF "power_levels" \in authEvents.failing
     THEN [err |-> "LoadError", reads |-> reads, levels |-> DefaultPowerLevels]
     ELSE IF powerLevelsEvent = NilEvent
     THEN [err |-> "nil", reads |-> reads,
           levels |-> [DefaultPowerLevels EXCEPT !.userLevels = [u \in {creatorID} |-> 100]]]
     ELSE [err |-> content.err, reads |-> reads, levels |-> content.levels]

\* newJoinRuleContentFromAuthEvents: without a join rules event the rule
\* is invite.
NewJoinRuleContentFromAuthEvents(authEvents) ==
  LET joinRulesEvent == authEvents.joinRules
      reads == {Read("m.room.join_rules", EmptyString)}
  IN IF "join_rules" \in authEvents.failing
     THEN [err |-> "LoadError", reads |-> reads, JoinRule |-> ""]
     ELSE IF joinRulesEvent = NilEvent
     THEN [err |-> "nil", reads |-> reads, JoinRule |-> "invite"]
     ELSE IF ~joinRulesEvent.content.parses
     THEN [err |-> "NotAllowed", reads |-> reads, JoinRule |-> ""]
     ELSE [err |-> "nil", reads |-> reads, JoinRule |-> joinRulesEvent.content.joinRule]

\* powerLevelContent.userLevel
UserLevel(levels, userID) ==
  IF userID \in DOMAIN levels.userLevels THEN levels.userLevels[userID]
  ELSE levels.userDefaultLevel

\* powerLevelContent.eventLevel
EventLevel(levels, eventType, isState) ==
  IF eventType \in DOMAIN levels.eventLevels THEN levels.eventLevels[eventType]
  ELSE IF isState THEN levels.stateDefaultLevel
  ELSE levels.eventDefaultLevel

\* isValidUserID: the id starts with "@" and has a ":".
IsValidUserID(userID) ==
  /\ Len(userID) > 0
  /\ userID[1] = "@"
  /\ IndexOfColon(userID, 1) # 0

(***************************************************************************)
(* eventauth.go: Allowed.  Every check returns its error ("nil" when the   *)
(* event is allowed, "NotAllowed", "InvalidID" for a failing domainFromID, *)
(* "LoadError" for a failing AuthEvents, "Panic") and the auth events it   *)
(* asked for (reads).                                                      *)
(***************************************************************************)
NoReads == {}

\* createEventAllowed without the test of the prev_events.
CreateEventAllowedAnyPrevEvents(event) ==
  LET roomIDDomain == DomainFromID(event.roomID)
      senderDomain == DomainFromID(event.sender)
      err == IF ~StateKeyEquals(event, EmptyString) THEN "NotAllowed"
             ELSE IF roomIDDomain.err # "nil" THEN roomIDDomain.err
             ELSE IF senderDomain.err # "nil" THEN senderDomain.err
             ELSE IF senderDomain.domain # roomIDDomain.domain THEN "NotAllowed"
             ELSE "nil"
  IN [err |-> err, reads |-> NoReads]

\* createEventAllowed
CreateEventAllowed(event) ==
  LET roomIDDomain == DomainFromID(event.roomID)
      senderDomain == DomainFromID(event.sender)
      err == IF ~StateKeyEquals(event, EmptyString) THEN "NotAllowed"
             ELSE IF roomIDDomain.err # "nil" THEN roomIDDomain.err
             ELSE IF senderDomain.err # "nil" THEN senderDomain.err
             ELSE IF senderDomain.domain # roomIDDomain.domain THEN "NotAllowed"
             ELSE IF Len(event.prevEvents) > 0 THEN "NotAllowed"
             ELSE "nil"
  IN [err |-> err, reads |-> NoReads]

\* aliasEventAllowed: the error of newCreateContentFromAuthEvents is
\* overwritten by the error of domainFromID.
AliasEventAllowed(event, authEvents) ==
  LET create == NewCreateContentFromAuthEvents(authEvents)
      senderDomain == DomainFromID(event.sender)
      err == IF senderDomain.err # "nil" THEN senderDomain.err
             ELSE IF event.roomID # create.c.roomID THEN "NotAllowed"
             ELSE IF DomainAllowed(create.c, senderDomain.domain) # "nil"
                  THEN DomainAllowed(create.c, senderDomain.domain)
             ELSE IF ~StateKeyEquals(event, senderDomain.domain) THEN "NotAllowed"
             ELSE "nil"
  IN [err |-> err, reads |-> create.reads]

\* newEventAllower: loads the create content, the membership of the sender
\* and the power levels, and stops at the first error.
NewEventAllower(authEvents, senderID) ==
  LET create == NewCreateContentFromAuthEvents(authEvents)
      member == NewMemberContentFromAuthEvents(authEvents, senderID)
      powerLevels == NewPowerLevelContentFromAuthEvents(authEvents, create.c.Creator)
  IN IF create.err # "nil"
     THEN [err |-> create.err, reads |-> create.reads, create |-> create.c,
           member |-> "", powerLevels |-> DefaultPowerLevels]
     ELSE IF member.err # "nil"
     THEN [err |-> member.err, reads |-> create.reads \cup member.reads, create |-> create.c,
           member |-> "", powerLevels |-> DefaultPowerLevels]
     ELSE [err |-> powerLevels.err,
           reads |-> create.reads \cup member.reads \cup powerLevels.reads,
           create |-> create.c, member |-> member.membership,
           powerLevels |-> powerLevels.levels]

\* commonChecks without the test of the state_keys that begin with "@".
CommonChecksAnyStateKey(e, event) ==
  LET sender == event.sender
      stateKey == event.stateKey
      senderLevel == UserLevel(e.powerLevels, sender)
      eventLevel == EventLevel(e.powerLevels, event.type, stateKey.present)
  IN IF event.roomID # e.create.roomID THEN "NotAllowed"
     ELSE IF UserIDAllowed(e.create, sender) # "nil" THEN UserIDAllowed(e.create, sender)
     ELSE IF e.member # "join" THEN "NotAllowed"
     ELSE IF senderLevel < eventLevel THEN "NotAllowed"
     ELSE "nil"

\* commonChecks without the test that the sender is in the room.
CommonChecksAnyMembership(e, event) ==
  LET sender == event.sender
      stateKey == event.stateKey
      senderLevel == UserLevel(e.powerLevels, sender)
      eventLevel == EventLevel(e.powerLevels, event.type, stateKey.present)
  IN IF event.roomID # e.create.roomID THEN "NotAllowed"
     ELSE IF UserIDAllowed(e.create, sender) # "nil" THEN UserIDAllowed(e.create, sender)
     ELSE IF senderLevel < eventLevel THEN "NotAllowed"
     ELSE IF stateKey.present /\ Len(stateKey.v) > 0 /\ stateKey.v[1] = "@"
             /\ stateKey.v # sender
          THEN "NotAllowed"
     ELSE "nil"

\* eventAllower.commonChecks
CommonChecks(e, event) ==
  LET sender == event.sender
      stateKey == event.stateKey
      senderLevel == UserLevel(e.powerLevels, sender)
      eventLevel == EventLevel(e.powerLevels, event.type, stateKey.present)
  IN IF event.roomID # e.create.roomID THEN "NotAllowed"
     ELSE IF UserIDAllowed(e.create, sender) # "nil" THEN UserIDAllowed(e.create, sender)
     ELSE IF e.member # "join" THEN "NotAllowed"
     ELSE IF senderLevel < eventLevel THEN "NotAllowed"
     ELSE IF stateKey.present /\ Len(stateKey.v) > 0 /\ stateKey.v[1] = "@"
             /\ stateKey.v # sender
          THEN "NotAllowed"
     ELSE "nil"

\* defaultEventAllowed
DefaultEventAllowed(event, authEvents) ==
  LET allower == NewEventAllower(authEvents, event.sender)
  IN IF allower.err # "nil" THEN [err |-> allower.err, reads |-> allower.reads]
     ELSE [err |-> CommonChecks(allower, event), reads |-> allower.reads]

\* The orders in which a range loop can visit the keys of a Go map: every
\* list of the keys without repetition.
RECURSIVE KeyOrders(_)
KeyOrders(S) ==
  IF S = {} THEN {<<>>}
  ELSE UNION {{<<x>> \o p : p \in KeyOrders(S \ {x})} : x \in S}

\* The keys of the four maps powerLevelsEventAllowed ranges over, in the
\* order the loops visit them, for an event that visits none.
NoOrder == [newEvents |-> <<>>, oldEvents |-> <<>>, newUsers |-> <<>>, oldUsers |-> <<>>]

\* checkEventLevels, levelChecks: the pairs of old and new level of the
\* named levels, then of every event type of the new levels, then of every
\* event type of the old levels, each in the order the map is ranged over.
EventLevelPairs(oldPowerLevels, newPowerLevels, newOrder, oldOrder) ==
  << <<oldPowerLevels.banLevel, newPowerLevels.banLevel>>,
     <<oldPowerLevels.inviteLevel, newPowerLevels.inviteLevel>>,
     <<oldPowerLevels.kickLevel, newPowerLevels.kickLevel>>,
     <<oldPowerLevels.redactLevel, newPowerLevels.redactLevel>>,
     <<oldPowerLevels.stateDefaultLevel, newPowerLevels.stateDefaultLevel>>,
     <<oldPowerLevels.eventDefaultLevel, newPowerLevels.eventDefaultLevel>> >>
  \o [i \in 1..Len(newOrder) |->
        <<EventLevel(oldPowerLevels, newOrder[i], FALSE),
          EventLevel(newPowerLevels, newOrder[i], FALSE)>>]
  \o [i \in 1..Len(oldOrder) |->
        <<EventLevel(oldPowerLevels, oldOrder[i], FALSE),
          EventLevel(newPowerLevels, oldOrder[i], FALSE)>>]

\* checkEventLevels, the loop over levelChecks from pair i on (lines
\* 376-405): returns at the first changed level that is above the level of
\* the sender, or was.
RECURSIVE CheckEventLevelLoop(_, _, _)
CheckEventLevelLoop(senderLevel, levelChecks, i) ==
  IF i > Len(levelChecks) THEN "nil"
  ELSE LET level == levelChecks[i]
       IN IF level[1] = level[2] THEN CheckEventLevelLoop(senderLevel, levelChecks, i + 1)
          ELSE IF senderLevel < level[2] THEN "NotAllowed"
          ELSE IF senderLevel < level[1] THEN "NotAllowed"
          ELSE CheckEventLevelLoop(senderLevel, levelChecks, i + 1)

\* checkEventLevels
CheckEventLevels(senderLevel, oldPowerLevels, newPowerLevels, newOrder, oldOrder) ==
  CheckEventLevelLoop(senderLevel,
                      EventLevelPairs(oldPowerLevels, newPowerLevels, newOrder, oldOrder), 1)

\* checkUserLevels, userLevelChecks: the pairs of old and new level, with
\* the user id, of the user default (user id ""), then of every user of
\* the new levels, then of every user of the old levels.
UserLevelPairs(oldPowerLevels, newPowerLevels, newOrder, oldOrder) ==
  << <<oldPowerLevels.userDefaultLevel, newPowerLevels.userDefaultLevel, EmptyString>> >>
  \o [i \in 1..Len(newOrder) |->
        <<UserLevel(oldPowerLevels, newOrder[i]), UserLevel(newPowerLevels, newOrder[i]),
          newOrder[i]>>]
  \o [i \in 1..Len(oldOrder) |->
        <<UserLevel(oldPowerLevels, oldOrder[i]), UserLevel(newPowerLevels, oldOrder[i]),
          oldOrder[i]>>]

\* The loop of checkUserLevels if it returned after the first changed
\* level it meets.
RECURSIVE CheckUserLevelLoopFirstChange(_, _, _, _)
CheckUserLevelLoopFirstChange(senderLevel, senderID, userLevelChecks, i) ==
  IF i > Len(userLevelChecks) THEN "nil"
  ELSE LET level == userLevelChecks[i]
       IN IF level[1] = level[2]
          THEN CheckUserLevelLoopFirstChange(senderLevel, senderID, userLevelChecks, i + 1)
          ELSE IF senderLevel < level[2] THEN "NotAllowed"
          ELSE IF level[3] = senderID THEN "nil"
          ELSE IF senderLevel <= level[1] THEN "NotAllowed"
          ELSE "nil"

\* The loop of checkUserLevels if a sender could change the level of a user
\* whose level equals their own.
RECURSIVE CheckUserLevelLoopEqualLevel(_, _, _, _)
CheckUserLevelLoopEqualLevel(senderLevel, senderID, userLevelChecks, i) ==
  IF i > Len(userLevelChecks) THEN "nil"
  ELSE LET level == userLevelChecks[i]
       IN IF level[1] = level[2]
          THEN CheckUserLevelLoopEqualLevel(senderLevel, senderID, userLevelChecks, i + 1)
          ELSE IF senderLevel < level[2] THEN "NotAllowed"
          ELSE IF level[3] = senderID
          THEN CheckUserLevelLoopEqualLevel(senderLevel, senderID, userLevelChecks, i + 1)
          ELSE IF senderLevel < level[1] THEN "NotAllowed"
          ELSE CheckUserLevelLoopEqualLevel(senderLevel, senderID, userLevelChecks, i + 1)

\* The loop with the test of the sender's own entry ahead of the test of
\* the new level: a sender may set their own level to any value.
RECURSIVE CheckUserLevelLoopOwnEntryFirst(_, _, _, _)
CheckUserLevelLoopOwnEntryFirst(senderLevel, senderID, userLevelChecks, i) ==
  IF i > Len(userLevelChecks) THEN "nil"
  ELSE LET level == userLevelChecks[i]
       IN IF level[1] = level[2]
          THEN CheckUserLevelLoopOwnEntryFirst(senderLevel, senderID, userLevelChecks, i + 1)
          ELSE IF level[3] = senderID
          THEN CheckUserLevelLoopOwnEntryFirst(senderLevel, senderID, userLevelChecks, i + 1)
          ELSE IF senderLevel < level[2] THEN "NotAllowed"
          ELSE IF senderLevel <= level[1] THEN "NotAllowed"
          ELSE CheckUserLevelLoopOwnEntryFirst(senderLevel, senderID, userLevelChecks, i + 1)

\* checkUserLevels, the loop over userLevelChecks from pair i on (lines
\* 444-483).
RECURSIVE CheckUserLevelLoop(_, _, _, _)
CheckUserLevelLoop(senderLevel, senderID, userLevelChecks, i) ==
  IF i > Len(userLevelChecks) THEN "nil"
  ELSE LET level == userLevelChecks[i]
       IN IF level[1] = level[2]
          THEN CheckUserLevelLoop(senderLevel, senderID, userLevelChecks, i + 1)
          ELSE IF senderLevel < level[2] THEN "NotAllowed"
          ELSE IF level[3] = senderID
          THEN CheckUserLevelLoop(senderLevel, senderID, userLevelChecks, i + 1)
          ELSE IF senderLevel <= level[1] THEN "NotAllowed"
          ELSE CheckUserLevelLoop(senderLevel, senderID, userLevelChecks, i + 1)

\* checkUserLevels
CheckUserLevels(senderLevel, senderID, oldPowerLevels, newPowerLevels, newOrder, oldOrder) ==
  CheckUserLevelLoop(senderLevel, senderID,
                     UserLevelPairs(oldPowerLevels, newPowerLevels, newOrder, oldOrder), 1)

\* powerLevelsEventAllowed if the first power levels event of a room were
\* compared with the default levels.
PowerLevelsEventAllowedNoFirstEvent(event, authEvents, order) ==
  LET allower == NewEventAllower(authEvents, event.sender)
      newPowerLevels == NewPowerLevelContentFromEvent(event)
      oldRead == {Read("m.room.power_levels", EmptyString)}
      senderLevel == UserLevel(allower.powerLevels, event.sender)
  IN IF allower.err # "nil" THEN [err |-> allower.err, reads |-> allower.reads]
     ELSE IF CommonChecks(allower, event) # "nil"
     THEN [err |-> CommonChecks(allower, event), reads |-> allower.reads]
     ELSE IF newPowerLevels.err # "nil"
     THEN [err |-> newPowerLevels.err, reads |-> allower.reads]
     ELSE IF \E i \in 1..Len(order.newUsers) : ~IsValidUserID(order.newUsers[i])
     THEN [err |-> "NotAllowed", reads |-> allower.reads]
     ELSE IF "power_levels" \in authEvents.failing
     THEN [err |-> "LoadError", reads |-> allower.reads \cup oldRead]
     ELSE IF CheckEventLevels(senderLevel, allower.powerLevels, newPowerLevels.levels,
                              order.newEvents, order.oldEvents) # "nil"
     THEN [err |-> "NotAllowed", reads |-> allower.reads \cup oldRead]
     ELSE [err |-> CheckUserLevels(senderLevel, event.sender, allower.powerLevels,
                                   newPowerLevels.levels, order.newUsers, order.oldUsers),
           reads |-> allower.reads \cup oldRead]

\* powerLevelsEventAllowed; order lists the keys of the maps in the order
\* the range loops visit them.
PowerLevelsEventAllowed(event, authEvents, order) ==
  LET allower == NewEventAllower(authEvents, event.sender)
      newPowerLevels == NewPowerLevelContentFromEvent(event)
      oldRead == {Read("m.room.power_levels", EmptyString)}
      senderLevel == UserLevel(allower.powerLevels, event.sender)
  IN IF allower.err # "nil" THEN [err |-> allower.err, reads |-> allower.reads]
     ELSE IF CommonChecks(allower, event) # "nil"
     THEN [err |-> CommonChecks(allower, event), reads |-> allower.reads]
     ELSE IF newPowerLevels.err # "nil"
     THEN [err |-> newPowerLevels.err, reads |-> allower.reads]
     ELSE IF \E i \in 1..Len(order.newUsers) : ~IsValidUserID(order.newUsers[i])
     THEN [err |-> "NotAllowed", reads |-> allower.reads]
     ELSE IF "power_levels" \in authEvents.failing
     THEN [err |-> "LoadError", reads |-> allower.reads \cup oldRead]
     ELSE IF authEvents.powerLevels = NilEvent
     THEN [err |-> "nil", reads |-> allower.reads \cup oldRead]
     ELSE IF CheckEventLevels(senderLevel, allower.powerLevels, newPowerLevels.levels,
                              order.newEvents, order.oldEvents) # "nil"
     THEN [err |-> "NotAllowed", reads |-> allower.reads \cup oldRead]
     ELSE [err |-> CheckUserLevels(senderLevel, event.sender, allower.powerLevels,
                                   newPowerLevels.levels, order.newUsers, order.oldUsers),
           reads |-> allower.reads \cup oldRead]

\* The orders in which the loops of Allowed(event, authEvents) can visit
\* the keys of the power level maps of the event and of the auth events.
MapOrders(event, authEvents) ==
  IF event.type # "m.room.power_levels" THEN {NoOrder}
  ELSE LET new == NewPowerLevelContentFromEvent(event).levels
           old == NewEventAllower(authEvents, event.sender).powerLevels
       IN { [newEvents |-> ne, oldEvents |-> oe, newUsers |-> nu, oldUsers |-> ou] :
              ne \in KeyOrders(DOMAIN new.eventLevels),
              oe \in KeyOrders(DOMAIN old.eventLevels),
              nu \in KeyOrders(DOMAIN new.userLevels),
              ou \in KeyOrders(DOMAIN old.userLevels) }

\* redactEventAllowed if a server could not redact its own events without
\* the redact level.
RedactEventAllowedLevelOnly(event, authEvents) ==
  LET allower == NewEventAllower(authEvents, event.sender)
      senderDomain == DomainFromID(event.sender)
      redactDomain == DomainFromID(event.redacts)
      senderLevel == UserLevel(allower.powerLevels, event.sender)
      redactLevel == allower.powerLevels.redactLevel
      err == IF allower.err # "nil" THEN allower.err
             ELSE IF CommonChecks(allower, event) # "nil" THEN CommonChecks(allower, event)
             ELSE IF senderDomain.err # "nil" THEN senderDomain.err
             ELSE IF redactDomain.err # "nil" THEN redactDomain.err
             ELSE IF senderLevel >= redactLevel THEN "nil"
             ELSE "NotAllowed"
  IN [err |-> err, reads |-> allower.reads]

\* redactEventAllowed
RedactEventAllowed(event, authEvents) ==
  LET allower == NewEventAllower(authEvents, event.sender)
      senderDomain == DomainFromID(event.sender)
      redactDomain == DomainFromID(event.redacts)
      senderLevel == UserLevel(allower.powerLevels, event.sender)
      redactLevel == allower.powerLevels.redactLevel
      err == IF allower.err # "nil" THEN allower.err
             ELSE IF CommonChecks(allower, event) # "nil" THEN CommonChecks(allower, event)
             ELSE IF senderDomain.err # "nil" THEN senderDomain.err
             ELSE IF redactDomain.err # "nil" THEN redactDomain.err
             ELSE IF senderDomain.domain = redactDomain.domain THEN "nil"
             ELSE IF senderLevel >= redactLevel THEN "nil"
             ELSE "NotAllowed"
  IN [err |-> err, reads |-> allower.reads]

\* newMembershipAllower: loads the create content, the new membership from
\* the event, the memberships of the target and of the sender, the power
\* levels and, for a join, the join rules; stops at the first error.
NewMembershipAllower(authEvents, event) ==
  LET create == NewCreateContentFromAuthEvents(authEvents)
      newMember == NewMemberContentFromEvent(event)
      oldMember == NewMemberContentFromAuthEvents(authEvents, event.stateKey.v)
      senderMember == NewMemberContentFromAuthEvents(authEvents, event.sender)
      powerLevels == NewPowerLevelContentFromAuthEvents(authEvents, create.c.Creator)
      joinRule == NewJoinRuleContentFromAuthEvents(authEvents)
      m == [targetID |-> event.stateKey.v, senderID |-> event.sender,
            senderMember |-> senderMember.membership, oldMember |-> oldMember.membership,
            newMember |-> newMember, create |-> create.c,
            powerLevels |-> powerLevels.levels, joinRule |-> ""]
      r1 == create.reads
      r2 == r1 \cup oldMember.reads
      r3 == r2 \cup senderMember.reads
      r4 == r3 \cup powerLevels.reads
      r5 == r4 \cup joinRule.reads
  IN IF ~event.stateKey.present THEN [err |-> "NotAllowed", reads |-> NoReads, m |-> m]
     ELSE IF create.err # "nil" THEN [err |-> create.err, reads |-> r1, m |-> m]
     ELSE IF newMember.err # "nil" THEN [err |-> newMember.err, reads |-> r1, m |-> m]
     ELSE IF oldMember.err # "nil" THEN [err |-> oldMember.err, reads |-> r2, m |-> m]
     ELSE IF senderMember.err # "nil" THEN [err |-> senderMember.err, reads |-> r3, m |-> m]
     ELSE IF powerLevels.err # "nil" THEN [err |-> powerLevels.err, reads |-> r4, m |-> m]
     ELSE IF newMember.membership = "join"
     THEN [err |-> joinRule.err, reads |-> r5, m |-> [m EXCEPT !.joinRule = joinRule.JoinRule]]
     ELSE [err |-> "nil", reads |-> r4, m |-> m]

\* membershipAllowedSelf if a user who is not in the room could join a
\* room whose join rule is invite.
MembershipAllowedSelfAnyJoinRule(m) ==
  IF m.newMember.membership = "join"
     /\ \/ m.oldMember = "leave"
        \/ (m.oldMember = "invite" /\ m.joinRule = "public")
        \/ (m.oldMember = "invite" /\ m.joinRule = "invite")
        \/ m.oldMember = "join"
  THEN "nil"
  ELSE IF m.newMember.membership = "leave"
          /\ (m.oldMember = "join" \/ m.oldMember = "invite")
  THEN "nil"
  ELSE "NotAllowed"

\* membershipAllowedSelf if a user could set their own membership to leave
\* whatever the old membership is.
MembershipAllowedSelfLeaveAlways(m) ==
  IF m.newMember.membership = "join"
     /\ \/ (m.oldMember = "leave" /\ m.joinRule = "public")
        \/ (m.oldMember = "invite" /\ m.joinRule = "public")
        \/ (m.oldMember = "invite" /\ m.joinRule = "invite")
        \/ m.oldMember = "join"
  THEN "nil"
  ELSE IF m.newMember.membership = "leave"
  THEN "nil"
  ELSE "NotAllowed"

\* membershipAllower.membershipAllowedSelf
MembershipAllowedSelf(m) ==
  IF m.newMember.membership = "join"
     /\ \/ (m.oldMember = "leave" /\ m.joinRule = "public")
        \/ (m.oldMember = "invite" /\ m.joinRule = "public")
        \/ (m.oldMember = "invite" /\ m.joinRule = "invite")
        \/ m.oldMember = "join"
  THEN "nil"
  ELSE IF m.newMember.membership = "leave"
          /\ (m.oldMember = "join" \/ m.oldMember = "invite")
  THEN "nil"
  ELSE "NotAllowed"

\* membershipAllowedOther if a ban or a kick needed a level at least that
\* of the target instead of a higher one.
MembershipAllowedOtherEqualLevel(m) ==
  LET senderLevel == UserLevel(m.powerLevels, m.senderID)
      targetLevel == UserLevel(m.powerLevels, m.targetID)
  IN IF m.senderMember # "join" THEN "NotAllowed"
     ELSE IF m.newMember.membership = "ban"
             /\ senderLevel >= m.powerLevels.banLevel /\ senderLevel >= targetLevel
     THEN "nil"
     ELSE IF m.newMember.membership = "leave"
             /\ \/ (m.oldMember = "ban" /\ senderLevel >= m.powerLevels.banLevel)
                \/ (m.oldMember # "ban" /\ senderLevel >= m.powerLevels.kickLevel
                    /\ senderLevel >= targetLevel)
     THEN "nil"
     ELSE IF m.newMember.membership = "invite"
             /\ \/ (m.oldMember = "leave" /\ senderLevel >= m.powerLevels.inviteLevel)
                \/ (m.oldMember = "invite" /\ senderLevel >= m.powerLevels.inviteLevel)
     THEN "nil"
     ELSE "NotAllowed"

\* membershipAllowedOther if lifting a ban were tested like a kick.
MembershipAllowedOtherUnbanAsKick(m) ==
  LET senderLevel == UserLevel(m.powerLevels, m.senderID)
      targetLevel == UserLevel(m.powerLevels, m.targetID)
  IN IF m.senderMember # "join" THEN "NotAllowed"
     ELSE IF m.newMember.membership = "ban"
             /\ senderLevel >= m.powerLevels.banLevel /\ senderLevel > targetLevel
     THEN "nil"
     ELSE IF m.newMember.membership = "leave"
             /\ senderLevel >= m.powerLevels.kickLevel /\ senderLevel > targetLevel
     THEN "nil"
     ELSE IF m.newMember.membership = "invite"
             /\ \/ (m.oldMember = "leave" /\ senderLevel >= m.powerLevels.inviteLevel)
                \/ (m.oldMember = "invite" /\ senderLevel >= m.powerLevels.inviteLevel)
     THEN "nil"
     ELSE "NotAllowed"

\* membershipAllowedOther if an invite did not depend on the membership of
\* the target.
MembershipAllowedOtherInviteAnyone(m) ==
  LET senderLevel == UserLevel(m.powerLevels, m.senderID)
      targetLevel == UserLevel(m.powerLevels, m.targetID)
  IN IF m.senderMember # "join" THEN "NotAllowed"
     ELSE IF m.newMember.membership = "ban"
             /\ senderLevel >= m.powerLevels.banLevel /\ senderLevel > targetLevel
     THEN "nil"
     ELSE IF m.newMember.membership = "leave"
             /\ \/ (m.oldMember = "ban" /\ senderLevel >= m.powerLevels.banLevel)
                \/ (m.oldMember # "ban" /\ senderLevel >= m.powerLevels.kickLevel
                    /\ senderLevel > targetLevel)
     THEN "nil"
     ELSE IF m.newMember.membership = "invite" /\ senderLevel >= m.powerLevels.inviteLevel
     THEN "nil"
     ELSE "NotAllowed"

\* membershipAllower.membershipAllowedOther
MembershipAllowedOther(m) ==
  LET senderLevel == UserLevel(m.powerLevels, m.senderID)
      targetLevel == UserLevel(m.powerLevels, m.targetID)
  IN IF m.senderMember # "join" THEN "NotAllowed"
     ELSE IF m.newMember.membership = "ban"
             /\ senderLevel >= m.powerLevels.banLevel /\ senderLevel > targetLevel
     THEN "nil"
     ELSE IF m.newMember.membership = "leave"
             /\ \/ (m.oldMember = "ban" /\ senderLevel >= m.powerLevels.banLevel)
                \/ (m.oldMember # "ban" /\ senderLevel >= m.powerLevels.kickLevel
                    /\ senderLevel > targetLevel)
     THEN "nil"
     ELSE IF m.newMember.membership = "invite"
             /\ \/ (m.oldMember = "leave" /\ senderLevel >= m.powerLevels.inviteLevel)
                \/ (m.oldMember = "invite" /\ senderLevel >= m.powerLevels.inviteLevel)
     THEN "nil"
     ELSE "NotAllowed"

\* membershipAllowed without the special case of the first join of the
\* creator.
MembershipAllowedNoFirstJoin(m, event) ==
  IF m.create.roomID # event.roomID THEN "NotAllowed"
  ELSE IF UserIDAllowed(m.create, m.senderID) # "nil" THEN UserIDAllowed(m.create, m.senderID)
  ELSE IF UserIDAllowed(m.create, m.targetID) # "nil" THEN UserIDAllowed(m.create, m.targetID)
  ELSE IF m.newMember.membership = "invite" /\ m.newMember.tpi # "nil"
  THEN "Panic"
  ELSE IF m.targetID = m.senderID THEN MembershipAllowedSelf(m)
  ELSE MembershipAllowedOther(m)

\* membershipAllowed without the special case of the third party invite.
MembershipAllowedNoThirdPartyCase(m, event) ==
  IF m.create.roomID # event.roomID THEN "NotAllowed"
  ELSE IF UserIDAllowed(m.create, m.senderID) # "nil" THEN UserIDAllowed(m.create, m.senderID)
  ELSE IF UserIDAllowed(m.create, m.targetID) # "nil" THEN UserIDAllowed(m.create, m.targetID)
  ELSE IF /\ m.targetID = m.create.Creator
          /\ m.newMember.membership = "join"
          /\ m.senderID = m.targetID
          /\ Len(event.prevEvents) = 1
          /\ event.prevEvents[1] = m.create.eventID
  THEN "nil"
  ELSE IF m.targetID = m.senderID THEN MembershipAllowedSelf(m)
  ELSE MembershipAllowedOther(m)

\* membershipAllower.membershipAllowed
MembershipAllowed(m, event) ==
  IF m.create.roomID # event.roomID THEN "NotAllowed"
  ELSE IF UserIDAllowed(m.create, m.senderID) # "nil" THEN UserIDAllowed(m.create, m.senderID)
  ELSE IF UserIDAllowed(m.create, m.targetID) # "nil" THEN UserIDAllowed(m.create, m.targetID)
  ELSE IF /\ m.targetID = m.create.Creator
          /\ m.newMember.membership = "join"
          /\ m.senderID = m.targetID
          /\ Len(event.prevEvents) = 1
          /\ event.prevEvents[1] = m.create.eventID
  THEN "nil"
  ELSE IF m.newMember.membership = "invite" /\ m.newMember.tpi # "nil"
  THEN "Panic"
  ELSE IF m.targetID = m.senderID THEN MembershipAllowedSelf(m)
  ELSE MembershipAllowedOther(m)

\* memberEventAllowed
MemberEventAllowed(event, authEvents) ==
  LET allower == NewMembershipAllower(authEvents, event)
  IN IF allower.err # "nil" THEN [err |-> allower.err, reads |-> allower.reads]
     ELSE [err |-> MembershipAllowed(allower.m, event), reads |-> allower.reads]

\* Allowed checks whether an event is allowed by the auth events; order is
\* the order in which the maps of the power levels are ranged over.
Allowed(event, authEvents, order) ==
  IF event.type = "m.room.create" THEN CreateEventAllowed(event)
  ELSE IF event.type = "m.room.aliases" THEN AliasEventAllowed(event, authEvents)
  ELSE IF event.type = "m.room.member" THEN MemberEventAllowed(event, authEvents)
  ELSE IF event.type = "m.room.power_levels" THEN PowerLevelsEventAllowed(event, authEvents, order)
  ELSE IF event.type = "m.room.redaction" THEN RedactEventAllowed(event, authEvents)
  ELSE DefaultEventAllowed(event, authEvents)

(***************************************************************************)
(* The events and the auth events the rules are applied to.                *)
(***************************************************************************)
\* Longest list of events passed to StateNeededForAuth.
MaxBatch == 2

\* Power levels: the creator at 100; the creator at 100 and the other user
\* at 50, with a level for sending messages; the other user at 100 too.
LevelsCreator == [DefaultPowerLevels EXCEPT !.userLevels = (UserA :> 100)]
LevelsModerator ==
  [DefaultPowerLevels EXCEPT !.userLevels = (UserA :> 100) @@ (UserB :> 50),
                             !.eventLevels = ("m.room.message" :> 50)]
LevelsTwoAdmins ==
  [DefaultPowerLevels EXCEPT !.userLevels = (UserA :> 100) @@ (UserB :> 100)]
LevelsBadUser == [DefaultPowerLevels EXCEPT !.userLevels = (DomainX :> 100)]
\* Both users lowered against LevelsModerator; two event types raised
\* against it; a room where banning and inviting take more than kicking.
LevelsDemoted ==
  [DefaultPowerLevels EXCEPT !.userLevels = (UserA :> 50) @@ (UserB :> 0),
                             !.eventLevels = ("m.room.message" :> 50)]
LevelsEventsRaised ==
  [DefaultPowerLevels EXCEPT !.userLevels = (UserA :> 100) @@ (UserB :> 50),
                             !.eventLevels = ("m.room.message" :> 100) @@ ("m.room.topic" :> 25)]
LevelsStrict ==
  [DefaultPowerLevels EXCEPT !.banLevel = 75, !.kickLevel = 25, !.inviteLevel = 75,
                             !.userLevels = (UserA :> 100) @@ (UserB :> 50)]

MemberContents ==
  { UnparsableContent,
    MemberContent("join"), MemberContent("leave"), MemberContent("invite"), MemberContent("ban"),
    MemberContentWithToken("invite", TokenT), MemberContentWithToken("invite", TokenU),
    MemberContentWithToken("join", TokenT), MemberContentBadInvite("invite") }

CreateEvents ==
  { MkEvent("m.room.create", s, r, EventC, k, pe, EmptyString, CreateContent(s, "nil")) :
      s \in {UserA, UserB, UserNoDomain}, r \in {RoomX, RoomY},
      k \in {NilString, PtrTo(EmptyString), PtrTo(UserA)}, pe \in {<<>>, <<EventE>>} }

AliasEvents ==
  { MkEvent("m.room.aliases", s, r, EventE, k, <<EventC>>, EmptyString, NoContent) :
      s \in {UserA, UserB, UserNoDomain}, r \in {RoomX, RoomY, EmptyString},
      k \in {NilString, PtrTo(DomainX), PtrTo(DomainY)} }

MemberEvents ==
  { MkEvent("m.room.member", s, RoomX, EventE, k, pe, EmptyString, c) :
      s \in {UserA, UserB}, k \in {NilString, PtrTo(UserA), PtrTo(UserB)},
      pe \in {<<>>, <<EventC>>, <<EventE>>}, c \in MemberContents }
  \cup
  { MkEvent("m.room.member", s, RoomY, EventE, k, <<EventC>>, EmptyString, MemberContent(c)) :
      s \in {UserA, UserB}, k \in {PtrTo(UserA), PtrTo(UserB)}, c \in {"join", "leave"} }
  \cup
  { MkEvent("m.room.member", s, r, EventE, PtrTo(k), <<EventC>>, EmptyString, MemberContent("join")) :
      s \in {UserA, UserNoDomain}, r \in {RoomX, RoomY}, k \in {UserA, UserNoDomain} }

PowerLevelsEvents ==
  { MkEvent("m.room.power_levels", s, RoomX, EventE, k, <<EventC>>, EmptyString, c) :
      s \in {UserA, UserB}, k \in {NilString, PtrTo(EmptyString), PtrTo(UserB)},
      c \in {UnparsableContent} \cup
            {PowerLevelContent(l) : l \in {LevelsCreator, LevelsModerator, LevelsTwoAdmins,
                                            LevelsBadUser, LevelsDemoted,
                                            LevelsEventsRaised, LevelsStrict,
                                            [LevelsModerator EXCEPT !.kickLevel = 25],
                                            [LevelsModerator EXCEPT !.userDefaultLevel = 25]}} }

RedactionEvents ==
  { MkEvent("m.room.redaction", s, RoomX, EventE, k, <<EventC>>, r, NoContent) :
      s \in {UserA, UserB}, k \in {NilString, PtrTo(UserB)},
      r \in {EventC, EventE, EventNoDomain} }

MessageEvents ==
  { MkEvent("m.room.message", s, r, EventE, k, <<EventC>>, EmptyString, NoContent) :
      s \in {UserA, UserB, UserNoDomain}, r \in {RoomX, RoomY},
      k \in {NilString, PtrTo(EmptyString), PtrTo(UserA), PtrTo(UserB)} }

\* The events Allowed is applied to.
AllowedEvents ==
  CreateEvents \cup AliasEvents \cup MemberEvents \cup PowerLevelsEvents
  \cup RedactionEvents \cup MessageEvents

\* The events of the lists StateNeededForAuth is applied to: the member
\* events, and one event of every other type for each sender.
BatchEvents ==
  { e \in AllowedEvents :
      /\ e.roomID = RoomX
      /\ e.sender # UserNoDomain
      /\ e.type = "m.room.member" => e.prevEvents = <<>>
      /\ e.type = "m.room.create" => e.stateKey = PtrTo(EmptyString) /\ e.prevEvents = <<>>
      /\ e.type = "m.room.aliases" => e.stateKey = PtrTo(DomainX)
      /\ e.type = "m.room.power_levels" =>
           e.stateKey = PtrTo(EmptyString) /\ e.content = PowerLevelContent(LevelsCreator)
      /\ e.type = "m.room.redaction" => e.redacts = EventC
      /\ e.type = "m.room.message" => e.stateKey = NilString }

\* The auth events of a room: the create event of the room "!r:x" sent by
\* "@a:x", the membership of the users, the power levels and the join
\* rules.
CreateEventOf(content) ==
  MkEvent("m.room.create", UserA, RoomX, EventC, PtrTo(EmptyString), <<>>, EmptyString, content)
MembershipEventOf(user, membership) ==
  IF membership = "" THEN NilEvent
  ELSE MkEvent("m.room.member", user, RoomX, EventE, PtrTo(user), <<EventC>>, EmptyString,
               MemberContent(membership))
PowerLevelsEventOf(levels) ==
  MkEvent("m.room.power_levels", UserA, RoomX, EventE, PtrTo(EmptyString), <<EventC>>,
          EmptyString, PowerLevelContent(levels))
JoinRulesEventOf(rule) ==
  MkEvent("m.room.join_rules", UserA, RoomX, EventE, PtrTo(EmptyString), <<EventC>>,
          EmptyString, JoinRuleContent(rule))

\* AuthEvents that hold nothing.
NoAuthEvents ==
  [create |-> NilEvent, joinRules |-> NilEvent, powerLevels |-> NilEvent,
   member |-> [u \in AuthUsers |-> NilEvent], failing |-> {}]

\* AuthEvents that load without error.
LoadedAuthEvents ==
  { [create |-> c, joinRules |-> j, powerLevels |-> p,
     member |-> [u \in AuthUsers |-> IF u = UserA THEN MembershipEventOf(UserA, ma)
                                     ELSE IF u = UserB THEN MembershipEventOf(UserB, mb)
                                     ELSE NilEvent],
     failing |-> {}] :
      c \in {NilEvent, CreateEventOf(UnparsableContent), CreateEventOf(CreateContent(UserA, "nil")),
             CreateEventOf(CreateContent(UserA, "false"))},
      j \in {NilEvent, JoinRulesEventOf("public"), JoinRulesEventOf("invite")},
      p \in {NilEvent, PowerLevelsEventOf(LevelsCreator), PowerLevelsEventOf(LevelsModerator),
             PowerLevelsEventOf(LevelsTwoAdmins), PowerLevelsEventOf(LevelsStrict),
             PowerLevelsEventOf([LevelsCreator EXCEPT !.userDefaultLevel = 50]),
             PowerLevelsEventOf([LevelsCreator EXCEPT !.eventLevels = ("m.room.message" :> 50)])},
      ma \in {"", "join", "leave", "invite", "ban"},
      mb \in {"", "join", "invite", "ban"} }

\* AuthEvents of a room with both users joined in which one kind of load
\* returns an error.
FailingAuthEvents ==
  { [create |-> CreateEventOf(CreateContent(UserA, "nil")),
     joinRules |-> JoinRulesEventOf("public"),
     powerLevels |-> PowerLevelsEventOf(LevelsCreator),
     member |-> [u \in AuthUsers |-> IF u = UserNoDomain THEN NilEvent
                                     ELSE MembershipEventOf(u, "join")],
     failing |-> {f}] :
      f \in {"create", "member", "power_levels", "join_rules"} }

AuthEventSets == LoadedAuthEvents \cup FailingAuthEvents

NoResult == [err |-> "none", reads |-> NoReads]

(***************************************************************************)
(* State.                                                                  *)
(***************************************************************************)
VARIABLES
  \* InputEventHandlerDatabase
  rooms,        \* room registry: room_id -> room NID, 0 when not registered
  roomSeq,      \* the value NextRoomNID returns next
  regions,      \* active regions: set of [roomNID, regionNID]
  regionSeq,    \* the value NextRegionNID returns next
  stateEvents,  \* ids of the persisted state events (StateEventNIDs)
  stateAtEvent, \* ids of the events whose state is known (StateAtEvents)
  createLock,   \* CreateRoomLock: room_id -> the goroutines that hold the lock
  eventSeq,     \* the event NID AssignEventNIDs hands out next
  outputs,      \* number of OutputEvents emitted
  failures,     \* database calls that have returned an error so far
  \* one Handle call per goroutine
  pc,           \* position of the goroutine in Handle
  input,        \* the *api.InputEvent of the call
  roomNID,      \* the roomNID variable of prepareRoom / Handle
  result,       \* what the call returned: "ok" or the kind of error
  stats,        \* database calls the current call has made
  nth,          \* 1 for the first submission of the input, 2 for a later one
  okBefore,     \* whether an earlier submission of the input returned nil
  \* a direct call of prepareRegion
  regionCall,   \* [kind, roomNID, regionNID, err] of the last call
  \* a caller of StateNeededForAuth and Allowed
  events,       \* the events passed to StateNeededForAuth
  authEvents,   \* the AuthEvents passed to Allowed
  phase,        \* "off", "input", "needed" or "checked"
  needed,       \* what StateNeededForAuth(events) returned
  allowed,      \* what Allowed(events[0], authEvents) returned, and its requests
  \* storage: the table state_snapshots and a caller of its statements
  snapshots,      \* the rows [state_snapshot_nid, room_nid, state_block_nids]
  snapshotSeq,    \* the last value of state_snapshot_nid_seq
  insertedStates, \* what insertState stored and returned, call after call
  snapCall        \* the last call of insertState or bulkSelectStateBlockNIDs

hvars == <<rooms, roomSeq, regions, regionSeq, stateEvents, stateAtEvent, createLock,
           eventSeq, outputs, failures, pc, input, roomNID, result, stats, nth,
           okBefore, regionCall>>

avars == <<events, authEvents, phase, needed, allowed>>

svars == <<snapshots, snapshotSeq, insertedStates, snapCall>>

\* The last call of one of the two unique helpers: the helper, the sorted
\* list it was given and the list it returned.
VARIABLE uniqueCall

vars == <<hvars, avars, svars, uniqueCall>>

NoUniqueCall == [fn |-> "none", a |-> <<>>, result |-> <<>>]

(***************************************************************************)
(* storage: the statements on state_snapshots.                             *)
(***************************************************************************)
\* Most calls of insertState.
MaxSnapshots == 2

\* The lists of state block NIDs passed to insertState.
BlockLists == {<<>>, <<1>>, <<1, 2>>, <<2, 1>>}

\* The lists of state snapshot NIDs passed to bulkSelectStateBlockNIDs:
\* none, one or two NIDs, stored or not, also the same NID twice.
SnapshotRequests ==
  LET nids == 1..(MaxSnapshots + 1)
  IN {<<>>} \cup {<<a>> : a \in nids} \cup {<<a, b>> : a, b \in nids}

NoSnapCall ==
  [op |-> "none", roomNID |-> 0, stateBlockNIDs |-> <<>>, stateNIDs |-> <<>>,
   err |-> "nil", stateNID |-> 0, results |-> <<>>]

InitSnapshots ==
  /\ snapshots = {}
  /\ snapshotSeq = 0
  /\ insertedStates = <<>>
  /\ snapCall = NoSnapCall

NoStats == [locks |-> 0, drawn |-> 0, inserts |-> 0, eventNIDs |-> 0, outputs |-> 0]
NoRegionCall == [kind |-> 0, roomNID |-> 0, regionNID |-> 0, err |-> FALSE]

(***************************************************************************)
(* Helpers of event.go.                                                    *)
(***************************************************************************)
\* sort.Strings: insertion of x into the sorted sequence s.
RECURSIVE SortedInsert(_, _)
SortedInsert(s, x) ==
  IF s = <<>> THEN <<x>>
  ELSE IF x <= Head(s) THEN <<x>> \o s
  ELSE <<Head(s)>> \o SortedInsert(Tail(s), x)

RECURSIVE SortStrings(_)
SortStrings(s) == IF s = <<>> THEN <<>> ELSE SortedInsert(SortStrings(Tail(s)), Head(s))

\* The loop of unique (event.go): i is the index of the range loop, j the
\* write index (0-based as in the code), lastValue the pending value.
RECURSIVE UniqueLoop(_, _, _, _)
UniqueLoop(a, i, j, lastValue) ==
  IF i > Len(a) THEN SubSeq([a EXCEPT ![j + 1] = lastValue], 1, j + 1)
  ELSE IF a[i] # lastValue
       THEN UniqueLoop([a EXCEPT ![j + 1] = lastValue], i + 1, j + 1, a[i])
       ELSE UniqueLoop(a, i + 1, j, lastValue)

\* unique removes duplicate elements from a sorted slice.
Unique(a) == IF Len(a) = 0 THEN <<>> ELSE UniqueLoop(a, 1, 0, a[1])

(***************************************************************************)
(* InputEventHandlerDatabase (event.go, lines 23-58).                       *)
(***************************************************************************)
\* Whether a database call may return an error now.
MayFail == failures < MaxFailures
DBOutcomes == IF MayFail THEN BOOLEAN ELSE {TRUE}

\* RoomNID: the numeric ID of the room, 0 if there is none.
RoomNID(roomID) == rooms[roomID]

\* StateEventNIDs: the entries of the persisted events among eventIDs; the
\* list is smaller than the requested list when some are missing.
StateEventNIDs(eventIDs) == SelectSeq(eventIDs, LAMBDA e : e \in stateEvents)

\* StateAtEvents: the state at each of the events that has one.
StateAtEvents(eventIDs) == SelectSeq(eventIDs, LAMBDA e : e \in stateAtEvent)

\* ActiveRegionNID: the active region of the room, 0 if there is none.
ActiveRegionNID(n) ==
  IF \E g \in regions : g.roomNID = n
  THEN (CHOOSE g \in regions : g.roomNID = n).regionNID
  ELSE 0

(***************************************************************************)
(* Handle, one action per step.                                            *)
(***************************************************************************)
\* A database without rooms and regions that holds the events of an
\* earlier run; no call of Handle is in progress.
InitHandler ==
  /\ rooms = [r \in RoomIDs |-> 0]
  /\ roomSeq = 1
  /\ regions = {}
  /\ regionSeq = 1
  /\ stateEvents = PersistedEvents
  /\ stateAtEvent = EventsWithState
  /\ createLock = [r \in RoomIDs |-> {}]
  /\ eventSeq = 1
  /\ outputs = 0
  /\ failures = 0
  /\ pc = [p \in Procs |-> "idle"]
  /\ input = [p \in Procs |-> NoInput]
  /\ roomNID = [p \in Procs |-> 0]
  /\ result = [p \in Procs |-> "none"]
  /\ stats = [p \in Procs |-> NoStats]
  /\ nth = [p \in Procs |-> 1]
  /\ okBefore = [p \in Procs |-> FALSE]
  /\ regionCall = NoRegionCall

\* Nobody calls StateNeededForAuth or Allowed.
Init ==
  /\ InitHandler
  /\ events = <<>>
  /\ authEvents = NoAuthEvents
  /\ phase = "off"
  /\ needed = StateNeededResult(NoStateNeeded)
  /\ allowed = NoResult
  /\ InitSnapshots
  /\ uniqueCall = NoUniqueCall

dbvars == <<rooms, roomSeq, regions, regionSeq, stateEvents, stateAtEvent, eventSeq, outputs>>
subvars == <<nth, okBefore>>

\* A goroutine calls Handle(in).
Idle(p) == pc[p] = "idle" /\ regionCall = NoRegionCall

Call(p, in) ==
  /\ Idle(p)
  /\ pc' = [pc EXCEPT ![p] = "prepareState"]
  /\ input' = [input EXCEPT ![p] = in]
  /\ roomNID' = [roomNID EXCEPT ![p] = 0]
  /\ result' = [result EXCEPT ![p] = "none"]
  /\ stats' = [stats EXCEPT ![p] = NoStats]
  /\ nth' = [nth EXCEPT ![p] = 1]
  /\ okBefore' = [okBefore EXCEPT ![p] = FALSE]
  /\ UNCHANGED <<avars, svars, uniqueCall, dbvars, createLock, failures, regionCall>>

\* The caller submits the input of the call that has returned once more.
Resubmit(p) ==
  /\ pc[p] = "done"
  /\ pc' = [pc EXCEPT ![p] = "prepareState"]
  /\ roomNID' = [roomNID EXCEPT ![p] = 0]
  /\ result' = [result EXCEPT ![p] = "none"]
  /\ stats' = [stats EXCEPT ![p] = NoStats]
  /\ nth' = [nth EXCEPT ![p] = 2]
  /\ okBefore' = [okBefore EXCEPT ![p] = okBefore[p] \/ result[p] = "ok"]
  /\ UNCHANGED <<avars, svars, uniqueCall, dbvars, createLock, failures, regionCall, input>>

\* The caller is done with the input.
Return(p) ==
  /\ pc[p] = "done"
  /\ pc' = [pc EXCEPT ![p] = "idle"]
  /\ input' = [input EXCEPT ![p] = NoInput]
  /\ roomNID' = [roomNID EXCEPT ![p] = 0]
  /\ result' = [result EXCEPT ![p] = "none"]
  /\ stats' = [stats EXCEPT ![p] = NoStats]
  /\ nth' = [nth EXCEPT ![p] = 1]
  /\ okBefore' = [okBefore EXCEPT ![p] = FALSE]
  /\ UNCHANGED <<avars, svars, uniqueCall, dbvars, createLock, failures, regionCall>>

\* prepareState without the check of the number of states found for the
\* prev_events.
PrepareStateOutcomeNoPrevCheck(in, dbOK) ==
  IF ~in.parses THEN "invalid_event"
  ELSE IF ~dbOK THEN "db_error"
  ELSE IF in.hasState /\ Len(StateEventNIDs(in.state)) # Len(in.state) THEN "missing_state"
  ELSE "ok"

\* prepareState, lines 105-147: what it returns for input in when the
\* database call it makes succeeds (dbOK) or fails.
PrepareStateOutcome(in, dbOK) ==
  IF ~in.parses THEN "invalid_event"
  ELSE IF in.hasState
  THEN IF ~dbOK THEN "db_error"
       ELSE IF Len(StateEventNIDs(in.state)) # Len(in.state) THEN "missing_state"
       ELSE "ok"
  ELSE LET prevEventIDs == Unique(SortStrings(in.prevEvents))
       IN IF ~dbOK THEN "db_error"
          ELSE IF Len(StateAtEvents(prevEventIDs)) # Len(prevEventIDs) THEN "missing_state"
          ELSE "ok"

\* Step 1 of Handle: prepareState, and the return of its error.
PrepareState(p) ==
  /\ pc[p] = "prepareState"
  /\ \E dbOK \in DBOutcomes :
       LET out == PrepareStateOutcome(input[p], dbOK)
       IN /\ (~dbOK => out = "db_error")
          /\ failures' = IF out = "db_error" THEN failures + 1 ELSE failures
          /\ IF out = "ok"
             THEN /\ pc' = [pc EXCEPT ![p] = "roomNID"]
                  /\ UNCHANGED result
             ELSE /\ pc' = [pc EXCEPT ![p] = "done"]
                  /\ result' = [result EXCEPT ![p] = out]
  /\ UNCHANGED <<avars, svars, uniqueCall, dbvars, createLock, regionCall, input, roomNID, stats, subvars>>

\* prepareRoom creating the room for an input of any kind.
FirstLookupAnyKind(kind, nid, dbOK) ==
  IF ~dbOK THEN [pc |-> "done", err |-> "db_error"]
  ELSE IF nid # 0 THEN [pc |-> "insertEvent", err |-> "none"]
  ELSE [pc |-> "lock", err |-> "none"]

\* prepareRoom, lines 151-159: the lookup without the lock and the check
\* of the kind.  Returns the next position and the error, if any.
FirstLookup(kind, nid, dbOK) ==
  IF ~dbOK THEN [pc |-> "done", err |-> "db_error"]
  ELSE IF nid # 0 THEN [pc |-> "insertEvent", err |-> "none"]
  ELSE IF kind # KindOutlier THEN [pc |-> "done", err |-> "not_outlier"]
  ELSE [pc |-> "lock", err |-> "none"]

RoomNIDFirst(p) ==
  /\ pc[p] = "roomNID"
  /\ \E dbOK \in DBOutcomes :
       LET nid == RoomNID(input[p].roomID)
           next == FirstLookup(input[p].kind, nid, dbOK)
       IN /\ failures' = IF dbOK THEN failures ELSE failures + 1
          /\ pc' = [pc EXCEPT ![p] = next.pc]
          /\ result' = [result EXCEPT ![p] = next.err]
          /\ roomNID' = [roomNID EXCEPT ![p] = IF dbOK THEN nid ELSE 0]
  /\ UNCHANGED <<avars, svars, uniqueCall, dbvars, createLock, regionCall, input, stats, subvars>>

\* prepareRoom, line 162: CreateRoomLock(roomID) blocks until the lock of
\* the room_id is free.
LockFree(p) == createLock[input[p].roomID] = {}

CreateRoomLock(p) ==
  /\ pc[p] = "lock"
  /\ LockFree(p)
  /\ createLock' = [createLock EXCEPT ![input[p].roomID] = @ \cup {p}]
  /\ stats' = [stats EXCEPT ![p].locks = @ + 1]
  /\ pc' = [pc EXCEPT ![p] = "recheck"]
  /\ UNCHANGED <<avars, svars, uniqueCall, dbvars, failures, regionCall, input, roomNID, result, subvars>>

\* prepareRoom without the second lookup: the room is created by whoever
\* gets the lock.
SecondLookupNoRecheck(nid, dbOK) ==
  IF ~dbOK THEN [pc |-> "unlock", err |-> "db_error"]
  ELSE [pc |-> "nextRoomNID", err |-> "none"]

\* prepareRoom, lines 165-168: the lookup under the lock.
SecondLookup(nid, dbOK) ==
  IF ~dbOK THEN [pc |-> "unlock", err |-> "db_error"]
  ELSE IF nid # 0 THEN [pc |-> "unlock", err |-> "none"]
  ELSE [pc |-> "nextRoomNID", err |-> "none"]

RoomNIDRecheck(p) ==
  /\ pc[p] = "recheck"
  /\ \E dbOK \in DBOutcomes :
       LET nid == RoomNID(input[p].roomID)
           next == SecondLookup(nid, dbOK)
       IN /\ failures' = IF dbOK THEN failures ELSE failures + 1
          /\ pc' = [pc EXCEPT ![p] = next.pc]
          /\ result' = [result EXCEPT ![p] = next.err]
          /\ roomNID' = [roomNID EXCEPT ![p] = IF dbOK THEN nid ELSE 0]
  /\ UNCHANGED <<avars, svars, uniqueCall, dbvars, createLock, regionCall, input, stats, subvars>>

\* A NextRoomNID that returns the value of the sequence without advancing
\* it.
NextRoomNIDNoAdvance(p) ==
  /\ pc[p] = "nextRoomNID"
  /\ roomNID' = [roomNID EXCEPT ![p] = roomSeq]
  /\ roomSeq' = roomSeq
  /\ stats' = [stats EXCEPT ![p].drawn = @ + 1]
  /\ pc' = [pc EXCEPT ![p] = "insertNewRoom"]
  /\ UNCHANGED <<avars, svars, uniqueCall, rooms, regions, regionSeq, stateEvents, stateAtEvent, eventSeq, outputs,
                 createLock, failures, regionCall, input, result, subvars>>

\* prepareRoom, line 170: roomNID = h.db.NextRoomNID().
NextRoomNID(p) ==
  /\ pc[p] = "nextRoomNID"
  /\ roomNID' = [roomNID EXCEPT ![p] = roomSeq]
  /\ roomSeq' = roomSeq + 1
  /\ stats' = [stats EXCEPT ![p].drawn = @ + 1]
  /\ pc' = [pc EXCEPT ![p] = "insertNewRoom"]
  /\ UNCHANGED <<avars, svars, uniqueCall, rooms, regions, regionSeq, stateEvents, stateAtEvent, eventSeq, outputs,
                 createLock, failures, regionCall, input, result, subvars>>

\* prepareRoom, line 171: err = h.db.InsertNewRoom(roomNID, roomID).
InsertNewRoom(p) ==
  /\ pc[p] = "insertNewRoom"
  /\ \E dbOK \in DBOutcomes :
       /\ failures' = IF dbOK THEN failures ELSE failures + 1
       /\ rooms' = IF dbOK THEN [rooms EXCEPT ![input[p].roomID] = roomNID[p]] ELSE rooms
       /\ result' = [result EXCEPT ![p] = IF dbOK THEN "none" ELSE "db_error"]
  /\ stats' = [stats EXCEPT ![p].inserts = @ + 1]
  /\ pc' = [pc EXCEPT ![p] = "unlock"]
  /\ UNCHANGED <<avars, svars, uniqueCall, roomSeq, regions, regionSeq, stateEvents, stateAtEvent, eventSeq, outputs,
                 createLock, regionCall, input, roomNID, subvars>>

\* An unlock() called at the end of prepareRoom instead of deferred: the
\* early returns of an error keep the lock.
UnlockOnSuccessOnly(p) ==
  /\ pc[p] = "unlock"
  /\ createLock' = IF result[p] = "none"
                   THEN [createLock EXCEPT ![input[p].roomID] = @ \ {p}]
                   ELSE createLock
  /\ pc' = [pc EXCEPT ![p] = IF result[p] = "none" THEN "insertEvent" ELSE "done"]
  /\ UNCHANGED <<avars, svars, uniqueCall, dbvars, failures, regionCall, input, roomNID, result, stats, subvars>>

\* prepareRoom, line 163: the deferred unlock() runs when prepareRoom
\* returns; Handle then returns the error (line 80) or goes on.
Unlock(p) ==
  /\ pc[p] = "unlock"
  /\ createLock' = [createLock EXCEPT ![input[p].roomID] = @ \ {p}]
  /\ pc' = [pc EXCEPT ![p] = IF result[p] = "none" THEN "insertEvent" ELSE "done"]
  /\ UNCHANGED <<avars, svars, uniqueCall, dbvars, failures, regionCall, input, roomNID, result, stats, subvars>>

\* An insertEvent that assigns a new event NID and emits an output for
\* every submission.
InsertEventNoDedupe(p) ==
  /\ pc[p] = "insertEvent"
  /\ pc' = [pc EXCEPT ![p] = "done"]
  /\ result' = [result EXCEPT ![p] = "ok"]
  /\ eventSeq' = eventSeq + 1
  /\ outputs' = outputs + 1
  /\ stats' = [stats EXCEPT ![p].eventNIDs = @ + 1, ![p].outputs = @ + 1]
  /\ UNCHANGED <<avars, svars, uniqueCall, rooms, roomSeq, regions, regionSeq, stateEvents, stateAtEvent,
                 createLock, failures, regionCall, input, roomNID, subvars>>

\* Steps 3 and 4 of Handle, lines 85-102: insertEvent does nothing and
\* returns nil, and Handle returns nil for every kind.
InsertEvent(p) ==
  /\ pc[p] = "insertEvent"
  /\ pc' = [pc EXCEPT ![p] = "done"]
  /\ result' = [result EXCEPT ![p] = "ok"]
  /\ UNCHANGED <<avars, svars, uniqueCall, dbvars, createLock, failures, regionCall, input, roomNID,
                 stats, subvars>>

\* prepareRegion without the check of the kind.
PrepareRegionResultAnyKind(kind, n, dbOK) ==
  LET regionNID == ActiveRegionNID(n)
  IN IF ~dbOK
     THEN [kind |-> kind, roomNID |-> n, regionNID |-> 0, err |-> TRUE]
     ELSE [kind |-> kind, roomNID |-> n, regionNID |-> regionNID, err |-> FALSE]

\* prepareRegion, lines 200-212, called directly with a kind and the
\* numeric ID of a room; regionCall records what it returned.
PrepareRegionResult(kind, n, dbOK) ==
  LET regionNID == ActiveRegionNID(n)
  IN IF ~dbOK
     THEN [kind |-> kind, roomNID |-> n, regionNID |-> 0, err |-> TRUE]
     ELSE IF regionNID # 0
     THEN [kind |-> kind, roomNID |-> n, regionNID |-> regionNID, err |-> FALSE]
     ELSE IF kind # KindJoin
     THEN [kind |-> kind, roomNID |-> n, regionNID |-> 0, err |-> TRUE]
     ELSE [kind |-> kind, roomNID |-> n, regionNID |-> 0, err |-> FALSE]

PrepareRegion(kind, n) ==
  /\ regionCall = NoRegionCall
  /\ \A p \in Procs : pc[p] = "idle"
  /\ \E dbOK \in BOOLEAN :
       regionCall' = PrepareRegionResult(kind, n, dbOK)
  /\ UNCHANGED <<avars, svars, uniqueCall, dbvars, createLock, failures, pc, input, roomNID, result,
                 stats, subvars>>

PrepareRegionReturn ==
  /\ regionCall # NoRegionCall
  /\ regionCall' = NoRegionCall
  /\ UNCHANGED <<avars, svars, uniqueCall, dbvars, createLock, failures, pc, input, roomNID, result,
                 stats, subvars>>

Step(p) ==
  \/ PrepareState(p)
  \/ RoomNIDFirst(p)
  \/ CreateRoomLock(p)
  \/ RoomNIDRecheck(p)
  \/ NextRoomNID(p)
  \/ InsertNewRoom(p)
  \/ Unlock(p)
  \/ InsertEvent(p)
  \/ Return(p)

\* Concurrent Handle calls.
Next ==
  \/ \E p \in Procs : Idle(p) /\ \E in \in PlainInputs : Call(p, in)
  \/ \E p \in Procs : Step(p)
  \/ \E k \in Kinds : \E n \in 1..(roomSeq - 1) : PrepareRegion(k, n)
  \/ PrepareRegionReturn

Spec == Init /\ [][Next]_vars

\* Handle calls made one after the other by a single caller, with every
\* input.
NextSeq ==
  \/ Idle(1) /\ \E in \in InputEvents : Call(1, in)
  \/ Step(1)
  \/ Resubmit(1)
  \/ \E k \in Kinds : \E n \in 1..(roomSeq - 1) : PrepareRegion(k, n)
  \/ PrepareRegionReturn

SpecSeq == Init /\ [][NextSeq]_vars

(***************************************************************************)
(* StateNeededForAuth and Allowed applied to the events: the caller        *)
(* computes the state needed for a list of events and, for a single        *)
(* event, checks it against the auth events.                               *)
(***************************************************************************)
InitAuth ==
  /\ InitHandler
  /\ phase = "input"
  /\ needed = StateNeededResult(NoStateNeeded)
  /\ allowed = NoResult
  /\ InitSnapshots
  /\ uniqueCall = NoUniqueCall
  /\ \/ /\ events \in {<<e>> : e \in AllowedEvents}
        /\ authEvents \in AuthEventSets
     \/ /\ events \in SeqsUpTo(BatchEvents, MaxBatch)
        /\ authEvents = NoAuthEvents

\* needed := StateNeededForAuth(events)
ComputeStateNeeded ==
  /\ phase = "input"
  /\ needed' = StateNeededForAuth(events)
  /\ phase' = "needed"
  /\ UNCHANGED <<hvars, svars, uniqueCall, events, authEvents, allowed>>

\* allowed := Allowed(events[0], authEvents)
CheckAllowed ==
  /\ phase = "needed"
  /\ Len(events) = 1
  /\ \E order \in MapOrders(events[1], authEvents) :
       allowed' = Allowed(events[1], authEvents, order)
  /\ phase' = "checked"
  /\ UNCHANGED <<hvars, svars, uniqueCall, events, authEvents, needed>>

NextAuth ==
  \/ ComputeStateNeeded
  \/ CheckAllowed

SpecAuth == InitAuth /\ [][NextAuth]_vars

(***************************************************************************)
(* storage: insertState and bulkSelectStateBlockNIDs.                      *)
(***************************************************************************)
\* insertStateSQL if a snapshot were keyed by its content: the row of the
\* same room and list is found again.
InsertStateRowByContent(table, seq, room, stateBlockNIDs) ==
  IF \E row \in table : row.room_nid = room /\ row.state_block_nids = stateBlockNIDs
  THEN [table |-> table, seq |-> seq,
        stateNID |-> (CHOOSE row \in table : /\ row.room_nid = room
                                              /\ row.state_block_nids = stateBlockNIDs
                     ).state_snapshot_nid]
  ELSE [table |-> table \cup {[state_snapshot_nid |-> seq + 1, room_nid |-> room,
                               state_block_nids |-> stateBlockNIDs]},
        seq |-> seq + 1, stateNID |-> seq + 1]

\* insertStateSQL: a row with the next value of state_snapshot_nid_seq, the
\* room and the list as passed; RETURNING state_snapshot_nid.
InsertStateRow(table, seq, room, stateBlockNIDs) ==
  [table |-> table \cup {[state_snapshot_nid |-> seq + 1, room_nid |-> room,
                          state_block_nids |-> stateBlockNIDs]},
   seq |-> seq + 1, stateNID |-> seq + 1]

\* insertState(roomNID, stateBlockNIDs) returns (stateNID, nil).
InsertState ==
  /\ snapshotSeq < MaxSnapshots
  /\ \E room \in 1..NumRooms, stateBlockNIDs \in BlockLists :
       LET r == InsertStateRow(snapshots, snapshotSeq, room, stateBlockNIDs)
       IN /\ snapshots' = r.table
          /\ snapshotSeq' = r.seq
          /\ insertedStates' = Append(insertedStates,
                                      [stateNID |-> r.stateNID, roomNID |-> room,
                                       stateBlockNIDs |-> stateBlockNIDs])
          /\ snapCall' = [NoSnapCall EXCEPT !.op = "insertState", !.roomNID = room,
                                            !.stateBlockNIDs = stateBlockNIDs,
                                            !.stateNID = r.stateNID]
  /\ UNCHANGED <<hvars, avars, uniqueCall>>

\* insertState returns the error of the statement: no row is stored; the
\* sequence may have advanced.
InsertStateFails ==
  /\ snapshotSeq < MaxSnapshots
  /\ \E room \in 1..NumRooms, stateBlockNIDs \in BlockLists :
       snapCall' = [NoSnapCall EXCEPT !.op = "insertState", !.roomNID = room,
                                     !.stateBlockNIDs = stateBlockNIDs, !.err = "DBError"]
  /\ snapshotSeq' \in {snapshotSeq, snapshotSeq + 1}
  /\ UNCHANGED <<hvars, avars, uniqueCall, snapshots, insertedStates>>

\* The rows of S by ascending state_snapshot_nid.
RECURSIVE RowsInOrder(_)
RowsInOrder(S) ==
  IF S = {} THEN <<>>
  ELSE LET first == CHOOSE row \in S :
                      \A other \in S : row.state_snapshot_nid <= other.state_snapshot_nid
       IN <<first>> \o RowsInOrder(S \ {first})

\* bulkSelectStateBlockNIDsSQL: the rows whose state_snapshot_nid is any of
\* stateNIDs, ORDER BY state_snapshot_nid ASC.
SelectRows(table, stateNIDs) ==
  RowsInOrder({row \in table :
                 \E i \in 1..Len(stateNIDs) : row.state_snapshot_nid = stateNIDs[i]})

\* bulkSelectStateBlockNIDs after the query, lines 83-99: one result for
\* each of the rows that rows.Next() delivers, and an error unless there
\* are as many of them as stateNIDs.  fetched is the number of rows
\* delivered: rows.Next() returns false at the end of the rows and when
\* fetching a row fails, and rows.Err() is never asked.
BulkSelectResult(table, stateNIDs, fetched) ==
  LET rows == SubSeq(SelectRows(table, stateNIDs), 1, fetched)
  IN IF Len(rows) # Len(stateNIDs)
     THEN [err |-> "Missing", results |-> <<>>]
     ELSE [err |-> "nil",
           results |-> [i \in 1..Len(rows) |->
                          [StateSnapshotNID |-> rows[i].state_snapshot_nid,
                           StateBlockNIDs |-> rows[i].state_block_nids]]]

\* bulkSelectStateBlockNIDs(stateNIDs); the query or a Scan may return an
\* error (dbError), and the iteration over the rows may end early on an
\* error (fetched below the number of rows).
BulkSelectStateBlockNIDs ==
  /\ \E stateNIDs \in SnapshotRequests, dbError \in BOOLEAN :
       \E fetched \in 0..Len(SelectRows(snapshots, stateNIDs)) :
         LET r == BulkSelectResult(snapshots, stateNIDs, fetched)
         IN snapCall' = [NoSnapCall EXCEPT !.op = "bulkSelectStateBlockNIDs",
                                          !.stateNIDs = stateNIDs,
                                          !.err = IF dbError THEN "DBError" ELSE r.err,
                                          !.results = IF dbError THEN <<>> ELSE r.results]
  /\ UNCHANGED <<hvars, avars, uniqueCall, snapshots, snapshotSeq, insertedStates>>

NextSnapshots ==
  \/ InsertState
  \/ InsertStateFails
  \/ BulkSelectStateBlockNIDs

SpecSnapshots == Init /\ [][NextSnapshots]_vars

(***************************************************************************)
(* The two unique helpers, called with a sorted list of strings.           *)
(***************************************************************************)
\* The sorted lists the helpers are given: what sort.Strings leaves of the
\* members or tokens of a batch of events (two per member event).
UniqueInputs ==
  {SortStringSlice(s) : s \in SeqsUpTo(AuthUsers \cup {TokenT, TokenU}, 2 * MaxBatch)}

\* event.go: prevEventIDs = unique(prevEventIDs).
CallUnique ==
  /\ \E a \in UniqueInputs :
       uniqueCall' = [fn |-> "event.unique", a |-> a, result |-> Unique(a)]
  /\ UNCHANGED <<hvars, avars, svars>>

\* eventauth.go: members[:unique(sort.StringSlice(members))].
CallUniqueStrings ==
  /\ \E data \in UniqueInputs :
       uniqueCall' = [fn |-> "eventauth.unique", a |-> data, result |-> UniqueStrings(data)]
  /\ UNCHANGED <<hvars, avars, svars>>

NextUnique == CallUnique \/ CallUniqueStrings

SpecUnique == Init /\ [][NextUnique]_vars

(***************************************************************************)
(* Properties of the input handler.                                        *)
(***************************************************************************)
\* The positions of a call that has taken its first step and has not
\* returned.
Mid == {"roomNID", "lock", "recheck", "nextRoomNID", "insertNewRoom", "unlock", "insertEvent"}

Returned(p) == pc[p] = "done"

\* Every call that has succeeded holds the registered, non-zero NID of its room.
SucceededWithRegisteredNID ==
  \A p \in Procs :
    (Returned(p) /\ result[p] = "ok") =>
      (roomNID[p] # 0 /\ roomNID[p] = rooms[input[p].roomID])

\* C1 as stated: when Handle calls for Outlier inputs of one room_id
\* without a room NID run concurrently, InsertNewRoom is executed at most
\* once for the room_id and every call that succeeds obtains the same
\* non-zero room NID.
C1_InsertExecutedAtMostOnce ==
  /\ \A p, q \in Procs :
       (p # q /\ pc[p] # "idle" /\ pc[q] # "idle" /\ input[p].roomID = input[q].roomID)
         => stats[p].inserts + stats[q].inserts <= 1
  /\ SucceededWithRegisteredNID

\* InsertNewRoom is executed only for a room_id that is not registered, and
\* a registered room_id keeps its NID.
InsertOnlyWhenUnregistered ==
  /\ \A p \in Procs :
       stats'[p].inserts > stats[p].inserts => rooms[input[p].roomID] = 0
  /\ \A r \in RoomIDs : rooms[r] # 0 => rooms'[r] = rooms[r]

\* C1 as amended: in every interleaving InsertNewRoom is executed for a
\* room_id only while the room_id has no NID, so it succeeds at most once
\* and runs again only after an execution that failed; the NID of the
\* room_id never changes afterwards and every call that succeeds obtains
\* this non-zero NID.
C1_InsertSucceedsAtMostOnce ==
  /\ []SucceededWithRegisteredNID
  /\ [][InsertOnlyWhenUnregistered]_vars

\* Two concurrent calls for Outlier inputs of one room both found no NID,
\* both took the lock and both succeeded after a single InsertNewRoom.
C1_Witness ==
  \E p, q \in Procs :
    /\ p # q
    /\ input[p].roomID = input[q].roomID
    /\ \A x \in {p, q} :
         /\ Returned(x) /\ result[x] = "ok"
         /\ input[x].kind = KindOutlier
         /\ stats[x].locks = 1
    /\ stats[p].inserts = 1 /\ stats[q].inserts = 0
    /\ roomNID[p] = roomNID[q]

\* C2: a call with an input of kind Join, New or Backfill never takes a
\* lock, draws no room NID and inserts no room, and when its room_id has no
\* room NID it returns an error.
C2_NonOutlierDoesNotCreate ==
  \A p \in Procs :
    (pc[p] # "idle" /\ input[p].kind # KindOutlier) =>
      /\ stats[p] = NoStats
      /\ \A r \in RoomIDs : p \notin createLock[r]
      /\ (Returned(p) /\ rooms[input[p].roomID] = 0) => result[p] \notin {"ok", "none"}

\* A Join input for a room_id without a NID was refused because it is not
\* an outlier.
C2_Witness ==
  \E p \in Procs :
    /\ Returned(p) /\ input[p].kind = KindJoin
    /\ rooms[input[p].roomID] = 0
    /\ result[p] = "not_outlier"

\* Whether the state the input needs is missing: it supplies State and one
\* of the state events is not persisted, or it supplies none and the state
\* at one of its prev_events is not known.
MissingState(in) ==
  /\ in.parses
  /\ \/ in.hasState /\ \E i \in 1..Len(in.state) : in.state[i] \notin stateEvents
     \/ ~in.hasState /\ \E i \in 1..Len(in.prevEvents) : in.prevEvents[i] \notin stateAtEvent

\* The first step of a call whose state is missing ends the call with an
\* error and changes neither the database nor a lock.
MissingStateFailsFirst ==
  \A p \in Procs :
    (pc[p] = "prepareState" /\ pc'[p] # "prepareState" /\ MissingState(input[p])) =>
      /\ pc'[p] = "done"
      /\ result'[p] \in {"missing_state", "db_error"}
      /\ stats'[p] = NoStats
      /\ UNCHANGED <<dbvars, createLock>>

\* C3: when the state an input needs is missing, Handle fails before the
\* room step: it allocates no room NID, inserts no room, takes no lock and
\* leaves the store as it was.
C3_MissingStateFailsFirst == [][MissingStateFailsFirst]_vars

\* A call whose supplied State names an event that is not persisted, and
\* one whose prev_event has no known state, returned the missing state
\* error for a room_id that has no NID.
C3_Witness ==
  \E p \in Procs :
    /\ Returned(p) /\ MissingState(input[p])
    /\ result[p] = "missing_state"
    /\ input[p].kind = KindOutlier
    /\ input[p].hasState /\ Len(input[p].state) = 2
    /\ rooms[input[p].roomID] = 0
    /\ stats[p] = NoStats

\* C4: the steps of two Handle calls for the same room never interleave:
\* no two calls for one room_id are both between their first step and
\* their return.
C4_CallsOfARoomSerialized ==
  \A p, q \in Procs :
    (p # q /\ pc[p] \in Mid /\ pc[q] \in Mid) => input[p].roomID # input[q].roomID

\* C5: a call that has returned, with nil or with an error, holds no lock.
C5_LocksReleasedOnReturn ==
  \A p \in Procs : pc[p] \in {"idle", "done"} => \A r \in RoomIDs : p \notin createLock[r]

\* A call took the lock, its InsertNewRoom failed, it returned the error
\* and the lock of its room_id is free.
C5_Witness ==
  \E p \in Procs :
    /\ Returned(p) /\ result[p] = "db_error"
    /\ stats[p].locks = 1 /\ stats[p].inserts = 1
    /\ createLock[input[p].roomID] = {}

\* C6 as stated: the second and later submissions of an input return
\* success, allocate no room NID and no event NID and emit no output.
C6_ResubmissionSucceeds ==
  \A p \in Procs :
    (Returned(p) /\ nth[p] = 2) =>
      /\ result[p] = "ok"
      /\ stats[p].drawn = 0 /\ stats[p].inserts = 0
      /\ stats[p].eventNIDs = 0 /\ stats[p].outputs = 0
      /\ outputs <= 1

\* C6 as amended: once a submission of an input has returned success, a
\* later submission of the same input allocates no room NID and no event
\* NID, inserts no room and emits no output, and it returns success unless
\* a database call fails.
C6_ResubmissionAfterSuccess ==
  \A p \in Procs :
    (Returned(p) /\ nth[p] = 2 /\ okBefore[p]) =>
      /\ result[p] \in {"ok", "db_error"}
      /\ stats[p].drawn = 0 /\ stats[p].inserts = 0
      /\ stats[p].eventNIDs = 0 /\ stats[p].outputs = 0
      /\ outputs <= 1

\* An Outlier input that created its room was submitted again and the
\* second submission returned success.
C6_Witness ==
  \E p \in Procs :
    /\ Returned(p) /\ nth[p] = 2 /\ okBefore[p]
    /\ result[p] = "ok"
    /\ input[p].kind = KindOutlier
    /\ rooms[input[p].roomID] # 0

\* prepareRegion called with a kind other than Join for a room without an
\* active region returns an error.
PrepareRegionRefusesNonJoin ==
  (regionCall # NoRegionCall /\ regionCall.kind # KindJoin /\ regionCall.regionNID = 0)
    => regionCall.err

\* A room gets an active region only in a step of a Handle call for a Join
\* input of that room.
RegionOnlyByJoin ==
  \A n \in 1..roomSeq :
    (ActiveRegionNID(n) = 0 /\ ActiveRegionNID(n)' # 0) =>
      \E p \in Procs : pc[p] \in Mid /\ input[p].kind = KindJoin /\ roomNID[p] = n

\* C7: a room has an active region only if a Join input for it was
\* handled: no step of an Outlier, New or Backfill call and no call of
\* prepareRegion creates one, and prepareRegion returns an error for a room
\* without a region and a kind other than Join.
C7_RegionOnlyByJoin ==
  /\ []PrepareRegionRefusesNonJoin
  /\ [][RegionOnlyByJoin]_vars

\* prepareRegion was called with kind New for a registered room that has no
\* region: it returned an error, and the room still has no region.
C7_Witness ==
  /\ regionCall # NoRegionCall
  /\ regionCall.kind = KindNew
  /\ regionCall.err
  /\ \E r \in RoomIDs : rooms[r] = regionCall.roomNID
  /\ ActiveRegionNID(regionCall.roomNID) = 0

\* C8: after Handle has returned success for a Join input, the room of the
\* input has an active region.
C8_JoinCreatesRegion ==
  \A p \in Procs :
    (Returned(p) /\ result[p] = "ok" /\ input[p].kind = KindJoin) =>
      ActiveRegionNID(roomNID[p]) # 0

\* Whether the state needed lists the auth event of a request.
Listed(n, r) ==
  IF r.type = "m.room.create" THEN n.Create
  ELSE IF r.type = "m.room.join_rules" THEN n.JoinRules
  ELSE IF r.type = "m.room.power_levels" THEN n.PowerLevels
  ELSE IF r.type = "m.room.member" THEN \E i \in 1..Len(n.Member) : n.Member[i] = r.stateKey
  ELSE IF r.type = "m.room.third_party_invite"
       THEN \E i \in 1..Len(n.ThirdPartyInvite) : n.ThirdPartyInvite[i] = r.stateKey
  ELSE FALSE

\* C9: for every event E that Allowed accepts, every auth event Allowed
\* asked the AuthEvents for is listed in StateNeededForAuth([E]).
C9_ReadsAreStateNeeded ==
  (phase = "checked" /\ allowed.err = "nil") =>
    \A r \in allowed.reads : Listed(needed, r)

\* C9 witness: an accepted membership event for another user, for which
\* Allowed asked for the create event, the power levels and the membership
\* of the sender and of the target.
C9_Witness ==
  /\ phase = "checked"
  /\ allowed.err = "nil"
  /\ events[1].type = "m.room.member"
  /\ events[1].stateKey.present
  /\ events[1].stateKey.v # events[1].sender
  /\ { Read("m.room.create", EmptyString), Read("m.room.power_levels", EmptyString),
       Read("m.room.member", events[1].sender),
       Read("m.room.member", events[1].stateKey.v) } \subseteq allowed.reads

\* The elements of a list.
Elements(s) == {s[i] : i \in 1..Len(s)}

\* A list of strings in ascending order without duplicates.
StrictlySorted(s) == \A i \in 1..(Len(s) - 1) : StrLess(s[i], s[i + 1])

IsMember(e) == e.type = "m.room.member"
Decodes(e) == e.content.parses

\* The needs of one event as the spec lists them.
ClaimedCreate(e) == e.type # "m.room.create"
ClaimedPowerLevels(e) == e.type \notin {"m.room.create", "m.room.aliases"}
ClaimedJoinRules(e) == IsMember(e) /\ Decodes(e) /\ e.content.membership = "join"
ClaimedMembers(e) ==
  IF e.type \in {"m.room.create", "m.room.aliases"} THEN {}
  ELSE IF IsMember(e) /\ e.stateKey.present THEN {e.sender, e.stateKey.v}
  ELSE {e.sender}
ClaimedTokens(e) ==
  IF IsMember(e) /\ Decodes(e) /\ e.content.tpi = "token" /\ e.content.token # EmptyString
  THEN {e.content.token}
  ELSE {}

\* C10 as the spec states it: StateNeededForAuth over a list of events is
\* the union of the needs of the events, where every m.room.member event
\* needs create, power_levels, member(sender) and member(state_key).
C10_StateNeededIsClaimedUnion ==
  phase \in {"needed", "checked"} =>
    LET es == Elements(events)
    IN /\ needed.Create = (\E e \in es : ClaimedCreate(e))
       /\ needed.PowerLevels = (\E e \in es : ClaimedPowerLevels(e))
       /\ needed.JoinRules = (\E e \in es : ClaimedJoinRules(e))
       /\ Elements(needed.Member) = UNION {ClaimedMembers(e) : e \in es}
       /\ Elements(needed.ThirdPartyInvite) = UNION {ClaimedTokens(e) : e \in es}
       /\ StrictlySorted(needed.Member)
       /\ StrictlySorted(needed.ThirdPartyInvite)

\* The needs of one event: a m.room.member event whose content does not
\* decode needs nothing, and one without state_key needs no member.
NeedsCreate(e) == e.type # "m.room.create" /\ (IsMember(e) => Decodes(e))
NeedsPowerLevels(e) ==
  e.type \notin {"m.room.create", "m.room.aliases"} /\ (IsMember(e) => Decodes(e))
NeedsJoinRules(e) == IsMember(e) /\ Decodes(e) /\ e.content.membership = "join"
NeedsMembers(e) ==
  IF e.type \in {"m.room.create", "m.room.aliases"} THEN {}
  ELSE IF IsMember(e)
       THEN IF Decodes(e) /\ e.stateKey.present THEN {e.sender, e.stateKey.v} ELSE {}
  ELSE {e.sender}
NeedsTokens(e) ==
  IF IsMember(e) /\ Decodes(e) /\ e.content.tpi = "token" /\ e.content.token # EmptyString
  THEN {e.content.token}
  ELSE {}

\* C10, amended: StateNeededForAuth over a list of events is the union of
\* the needs of the events, each state key listed once, where a
\* m.room.member event contributes only when its content decodes, and
\* contributes member(sender) and member(state_key) only when it has a
\* state_key.
C10_StateNeededIsUnionOfNeeds ==
  phase \in {"needed", "checked"} =>
    LET es == Elements(events)
    IN /\ needed.Create = (\E e \in es : NeedsCreate(e))
       /\ needed.PowerLevels = (\E e \in es : NeedsPowerLevels(e))
       /\ needed.JoinRules = (\E e \in es : NeedsJoinRules(e))
       /\ Elements(needed.Member) = UNION {NeedsMembers(e) : e \in es}
       /\ Elements(needed.ThirdPartyInvite) = UNION {NeedsTokens(e) : e \in es}
       /\ StrictlySorted(needed.Member)
       /\ StrictlySorted(needed.ThirdPartyInvite)

\* C10 witness: the state needed for a list of two membership events that
\* share a user and carry different tokens, one of them a join.
C10_Witness ==
  /\ phase = "needed"
  /\ Len(events) = 2
  /\ IsMember(events[1]) /\ IsMember(events[2])
  /\ needed.JoinRules
  /\ Len(needed.Member) = 2
  /\ Len(needed.ThirdPartyInvite) = 2


\* C11: Allowed gives the same outcome for the same event and auth events
\* each time it is called, in whatever order the event types and the users
\* of the old and the new power levels are ranged over, and a call changes
\* neither the event nor the auth events.
C11_AllowedIsDeterministic ==
  /\ [](phase = "checked" =>
          \A order \in MapOrders(events[1], authEvents) :
            Allowed(events[1], authEvents, order).err = allowed.err)
  /\ [][phase' = "checked" => (events' = events /\ authEvents' = authEvents)]_vars

\* A denied power levels event with a changed user level that alone would
\* pass and another that alone would fail, so that the loop over the users
\* meets them in either order.
C11_Witness ==
  /\ phase = "checked"
  /\ events[1].type = "m.room.power_levels"
  /\ allowed.err = "NotAllowed"
  /\ NewPowerLevelContentFromEvent(events[1]).err = "nil"
  /\ authEvents.powerLevels # NilEvent
  /\ LET old == NewEventAllower(authEvents, events[1].sender).powerLevels
         new == NewPowerLevelContentFromEvent(events[1]).levels
         senderLevel == UserLevel(old, events[1].sender)
     IN \E order \in MapOrders(events[1], authEvents) :
          LET pairs == UserLevelPairs(old, new, order.newUsers, order.oldUsers)
          IN /\ CheckEventLevels(senderLevel, old, new, order.newEvents, order.oldEvents) = "nil"
             /\ \E i, j \in 1..Len(pairs) :
                  /\ pairs[i][1] # pairs[i][2]
                  /\ CheckUserLevelLoop(senderLevel, events[1].sender, <<pairs[i]>>, 1) = "nil"
                  /\ CheckUserLevelLoop(senderLevel, events[1].sender, <<pairs[j]>>, 1) # "nil"


\* Whether the AuthEvents return an error for a request.
LoadFails(auth, r) ==
  \/ r.type = "m.room.create" /\ "create" \in auth.failing
  \/ r.type = "m.room.member" /\ "member" \in auth.failing
  \/ r.type = "m.room.power_levels" /\ "power_levels" \in auth.failing
  \/ r.type = "m.room.join_rules" /\ "join_rules" \in auth.failing

\* C12: whenever the load of an auth event that Allowed asks for returns an
\* error, Allowed returns that error, for m.room.aliases events as for the
\* others.
C12_LoadErrorIsReturned ==
  (phase = "checked" /\ \E r \in allowed.reads : LoadFails(authEvents, r))
    => allowed.err = "LoadError"


\* C13: an m.room.create event is allowed exactly when its state_key is
\* present and empty, the domain of its sender is the domain of its
\* room_id, and it has no prev_events; Allowed asks for no auth event.
C13_CreateAllowedExactly ==
  (phase = "checked" /\ events[1].type = "m.room.create") =>
    LET event == events[1]
    IN /\ allowed.reads = {}
       /\ allowed.err = "nil" <=>
            /\ event.stateKey.present
            /\ event.stateKey.v = <<>>
            /\ DomainFromID(event.sender).err = "nil"
            /\ DomainFromID(event.roomID).err = "nil"
            /\ DomainFromID(event.sender).domain = DomainFromID(event.roomID).domain
            /\ event.prevEvents = <<>>

\* A create event was accepted against auth events that hold a create
\* event already.
C13_Witness ==
  /\ phase = "checked"
  /\ events[1].type = "m.room.create"
  /\ allowed.err = "nil"
  /\ authEvents.create # NilEvent


\* Whether the event is the first join of the creator of the room: sender
\* and state_key are the creator, the membership is join and the only
\* prev_event is the create event.
IsFirstJoin(event, auth) ==
  /\ event.type = "m.room.member"
  /\ auth.create # NilEvent
  /\ auth.create.content.parses
  /\ event.content.parses
  /\ event.content.membership = "join"
  /\ event.stateKey.present
  /\ event.stateKey.v = auth.create.content.creator
  /\ event.sender = auth.create.content.creator
  /\ event.prevEvents = <<auth.create.eventID>>

\* C14: the first join of the creator, in the room of the create event, is
\* allowed whatever the membership of the creator, the join rules and the
\* power levels of the auth events are (the auth events load).
C14_FirstJoinAllowed ==
  (/\ phase = "checked"
   /\ authEvents.failing = {}
   /\ IsFirstJoin(events[1], authEvents)
   /\ events[1].roomID = authEvents.create.roomID)
    => allowed.err = "nil"

\* The first join of a creator who is banned, in a room joined by
\* invitation only in which the power levels are set, was accepted.
C14_Witness ==
  /\ phase = "checked"
  /\ IsFirstJoin(events[1], authEvents)
  /\ allowed.err = "nil"
  /\ MemberEvent(authEvents, events[1].sender) # NilEvent
  /\ MemberEvent(authEvents, events[1].sender).content.membership = "ban"
  /\ authEvents.joinRules # NilEvent
  /\ authEvents.joinRules.content.joinRule = "invite"
  /\ authEvents.powerLevels # NilEvent


\* The membership of a user in the auth events: leave without a member
\* event.
MembershipOf(auth, userID) ==
  IF MemberEvent(auth, userID) = NilEvent THEN "leave"
  ELSE MemberEvent(auth, userID).content.membership

\* The join rule of the auth events: invite without a join rules event.
JoinRuleOf(auth) ==
  IF auth.joinRules = NilEvent THEN "invite" ELSE auth.joinRules.content.joinRule

\* Whether the tests that come before the tests of the memberships pass:
\* newMembershipAllower returns no error (the event has a state_key, its
\* content decodes, and every auth event it asks for loads and decodes;
\* the join rules are asked for only by a join), the event is in the room
\* of the create event, and the create event lets the servers of the
\* sender and of the target take part.
GeneralChecksPass(event, auth) ==
  LET allower == NewMembershipAllower(auth, event)
  IN /\ allower.err = "nil"
     /\ allower.m.create.roomID = event.roomID
     /\ UserIDAllowed(allower.m.create, allower.m.senderID) = "nil"
     /\ UserIDAllowed(allower.m.create, allower.m.targetID) = "nil"

\* The changes a user may make to their own membership (old, new, join
\* rule).
SelfTransitions ==
  { <<"leave", "join", "public">>, <<"invite", "join", "invite">>,
    <<"invite", "join", "public">> }
  \cup { <<"join", "join", rule>> : rule \in {"public", "invite"} }
  \cup { <<old, "leave", rule>> : old \in {"join", "invite"}, rule \in {"public", "invite"} }

\* C15: a member event by which the sender changes their own membership,
\* other than the first join of the creator, is allowed only for the
\* transitions leave->join (join rule public), invite->join (join rule
\* invite or public), join->join, join->leave and invite->leave, and is
\* allowed for each of them when the general checks pass.
C15_SelfChangeExactly ==
  (/\ phase = "checked"
   /\ events[1].type = "m.room.member"
   /\ events[1].content.parses
   /\ events[1].stateKey.present
   /\ events[1].stateKey.v = events[1].sender
   /\ ~IsFirstJoin(events[1], authEvents)) =>
    LET event == events[1]
        transition == <<MembershipOf(authEvents, event.sender), event.content.membership,
                        JoinRuleOf(authEvents)>>
    IN /\ allowed.err = "nil" => transition \in SelfTransitions
       /\ (GeneralChecksPass(event, authEvents) /\ transition \in SelfTransitions)
            => allowed.err = "nil"

\* An invited user other than the creator joined a room whose join rule is
\* invite.
C15_Witness ==
  /\ phase = "checked"
  /\ events[1].type = "m.room.member"
  /\ events[1].stateKey.present
  /\ events[1].stateKey.v = events[1].sender
  /\ ~IsFirstJoin(events[1], authEvents)
  /\ events[1].content.membership = "join"
  /\ MembershipOf(authEvents, events[1].sender) = "invite"
  /\ JoinRuleOf(authEvents) = "invite"
  /\ allowed.err = "nil"


\* The power levels of the room of the auth events.
RoomLevels(auth) ==
  NewPowerLevelContentFromAuthEvents(auth, auth.create.content.creator).levels

\* Whether the event is a member event by which the sender sets the
\* membership of another user.
ChangesOther(event, membership) ==
  /\ event.type = "m.room.member"
  /\ event.content.parses
  /\ event.content.membership = membership
  /\ event.stateKey.present
  /\ event.stateKey.v # event.sender

\* C16: a member event that bans another user, or sets another user who is
\* not banned to leave, is allowed only if the sender is joined, the level
\* of the sender is at least ban_level (for a ban) or kick_level (for a
\* kick), and the level of the sender is greater than that of the target.
C16_BanAndKickNeedHigherLevel ==
  (/\ phase = "checked"
   /\ allowed.err = "nil"
   /\ \/ ChangesOther(events[1], "ban")
      \/ /\ ChangesOther(events[1], "leave")
         /\ MembershipOf(authEvents, events[1].stateKey.v) # "ban") =>
    LET event == events[1]
        levels == RoomLevels(authEvents)
        senderLevel == UserLevel(levels, event.sender)
    IN /\ MembershipOf(authEvents, event.sender) = "join"
       /\ event.content.membership = "ban" => senderLevel >= levels.banLevel
       /\ event.content.membership = "leave" => senderLevel >= levels.kickLevel
       /\ senderLevel > UserLevel(levels, event.stateKey.v)

\* A ban of another user was accepted, where the power levels of the room
\* give the target a level of their own above the default.
C16_Witness ==
  /\ phase = "checked"
  /\ allowed.err = "nil"
  /\ ChangesOther(events[1], "ban")
  /\ events[1].stateKey.v \in DOMAIN RoomLevels(authEvents).userLevels
  /\ UserLevel(RoomLevels(authEvents), events[1].stateKey.v) > 0


\* C17: a member event by a joined sender that sets another user who is
\* banned to leave is allowed exactly when the level of the sender is at
\* least ban_level, whatever the level of the target and the kick_level
\* are.
C17_UnbanNeedsBanLevel ==
  (/\ phase = "checked"
   /\ ChangesOther(events[1], "leave")
   /\ GeneralChecksPass(events[1], authEvents)
   /\ MembershipOf(authEvents, events[1].sender) = "join"
   /\ MembershipOf(authEvents, events[1].stateKey.v) = "ban") =>
    (allowed.err = "nil" <=>
       UserLevel(RoomLevels(authEvents), events[1].sender) >= RoomLevels(authEvents).banLevel)

\* A sender lifted the ban of a user whose level is above their own.
C17_Witness ==
  /\ phase = "checked"
  /\ allowed.err = "nil"
  /\ ChangesOther(events[1], "leave")
  /\ MembershipOf(authEvents, events[1].stateKey.v) = "ban"
  /\ UserLevel(RoomLevels(authEvents), events[1].sender)
       < UserLevel(RoomLevels(authEvents), events[1].stateKey.v)


\* C18: a member event that invites another user is allowed only if the
\* sender is joined, the membership of the target is leave or invite and
\* the level of the sender is at least invite_level, and with these it is
\* allowed when the general checks pass and the invite carries no
\* third_party_invite; a joined or banned user is never set to invite.
C18_InviteExactly ==
  (phase = "checked" /\ ChangesOther(events[1], "invite")) =>
    LET event == events[1]
        levels == RoomLevels(authEvents)
        mayInvite ==
          /\ MembershipOf(authEvents, event.sender) = "join"
          /\ MembershipOf(authEvents, event.stateKey.v) \in {"leave", "invite"}
          /\ UserLevel(levels, event.sender) >= levels.inviteLevel
    IN /\ allowed.err = "nil" => mayInvite
       /\ (/\ GeneralChecksPass(event, authEvents)
           /\ event.content.tpi = "nil"
           /\ mayInvite) => allowed.err = "nil"

\* A user who was invited already was invited again by a joined sender.
C18_Witness ==
  /\ phase = "checked"
  /\ allowed.err = "nil"
  /\ ChangesOther(events[1], "invite")
  /\ MembershipOf(authEvents, events[1].stateKey.v) = "invite"
  /\ MembershipOf(authEvents, events[1].sender) = "join"


\* C19: a member event whose membership is invite and whose content has a
\* third_party_invite that is not empty is never allowed: Allowed returns
\* an error or panics.
C19_ThirdPartyInviteNeverAllowed ==
  (/\ phase = "checked"
   /\ events[1].type = "m.room.member"
   /\ events[1].content.parses
   /\ events[1].content.membership = "invite"
   /\ events[1].content.tpi # "nil") => allowed.err \in {"NotAllowed", "InvalidID", "LoadError", "Panic"}

\* An invite with a third_party_invite that an invite without one would
\* have passed ended in the panic.
C19_Witness ==
  /\ phase = "checked"
  /\ ChangesOther(events[1], "invite")
  /\ events[1].content.tpi # "nil"
  /\ allowed.err = "Panic"
  /\ MembershipOf(authEvents, events[1].sender) = "join"
  /\ MembershipOf(authEvents, events[1].stateKey.v) = "leave"
  /\ UserLevel(RoomLevels(authEvents), events[1].sender) >= RoomLevels(authEvents).inviteLevel


\* C20: when the auth events hold no m.room.power_levels event, a power
\* levels event that passes the common checks and whose user keys are
\* valid user ids is allowed whatever levels it sets, levels above that of
\* its sender included.
C20_FirstPowerLevelsAllowed ==
  (/\ phase = "checked"
   /\ events[1].type = "m.room.power_levels"
   /\ authEvents.powerLevels = NilEvent
   /\ DefaultEventAllowed(events[1], authEvents).err = "nil"
   /\ events[1].content.parses
   /\ \A userID \in DOMAIN events[1].content.levels.userLevels : IsValidUserID(userID))
    => allowed.err = "nil"

\* The first power levels event of a room was accepted and gives a user a
\* level above the level of its sender.
C20_Witness ==
  /\ phase = "checked"
  /\ events[1].type = "m.room.power_levels"
  /\ authEvents.powerLevels = NilEvent
  /\ allowed.err = "nil"
  /\ \E userID \in DOMAIN events[1].content.levels.userLevels :
       events[1].content.levels.userLevels[userID]
         > UserLevel(RoomLevels(authEvents), events[1].sender)


\* Whether the event is a power levels event that reaches the comparison
\* with the power levels event of the room: it passes the common checks,
\* its content decodes and its user keys are user ids.
ComparesPowerLevels(event, auth) ==
  /\ event.type = "m.room.power_levels"
  /\ auth.powerLevels # NilEvent
  /\ DefaultEventAllowed(event, auth).err = "nil"
  /\ event.content.parses
  /\ \A userID \in DOMAIN event.content.levels.userLevels : IsValidUserID(userID)

\* The old and the new value of the six named levels checkEventLevels
\* lists and of the level of every event type of either side, the missing
\* side taking its default.
EventLevelChanges(old, new) ==
  { <<old.banLevel, new.banLevel>>, <<old.inviteLevel, new.inviteLevel>>,
    <<old.kickLevel, new.kickLevel>>, <<old.redactLevel, new.redactLevel>>,
    <<old.stateDefaultLevel, new.stateDefaultLevel>>,
    <<old.eventDefaultLevel, new.eventDefaultLevel>> }
  \cup { <<EventLevel(old, t, FALSE), EventLevel(new, t, FALSE)>> :
           t \in DOMAIN old.eventLevels \cup DOMAIN new.eventLevels }

\* The user id, the old and the new level of every user of either side.
UserLevelChanges(old, new) ==
  { <<u, UserLevel(old, u), UserLevel(new, u)>> :
      u \in DOMAIN old.userLevels \cup DOMAIN new.userLevels }

\* C21: when the room has a power levels event, a change of a named level
\* (ban, invite, kick, redact, state_default, event_default, user_default)
\* or of the level of an event type from old to new is denied exactly when
\* the level of the sender is below new or below old: of an event that
\* changes no level of a user otherwise than allowed, Allowed accepts it
\* exactly when no changed level is above the level of the sender, before
\* or after.
C21_LevelChangeDeniedExactly ==
  (/\ phase = "checked"
   /\ ComparesPowerLevels(events[1], authEvents)
   /\ \A c \in UserLevelChanges(RoomLevels(authEvents), events[1].content.levels) :
        c[2] = c[3]) =>
    LET old == RoomLevels(authEvents)
        new == events[1].content.levels
        senderLevel == UserLevel(old, events[1].sender)
        changes == EventLevelChanges(old, new)
                     \cup {<<old.userDefaultLevel, new.userDefaultLevel>>}
    IN allowed.err # "nil" <=>
         \E c \in changes : c[1] # c[2] /\ (senderLevel < c[2] \/ senderLevel < c[1])


\* C22: when the room has a power levels event, a changed level of a user
\* is allowed for the entry of the sender exactly when the new level is
\* not above the level of the sender, and for the entry of another user
\* exactly when the new level is not above and the old level is below the
\* level of the sender: of an event whose other changes are allowed,
\* Allowed accepts it exactly when every changed user entry is.
C22_UserLevelChangeExactly ==
  (/\ phase = "checked"
   /\ ComparesPowerLevels(events[1], authEvents)
   /\ RoomLevels(authEvents).userDefaultLevel = events[1].content.levels.userDefaultLevel
   /\ \A c \in EventLevelChanges(RoomLevels(authEvents), events[1].content.levels) :
        \/ c[1] = c[2]
        \/ /\ UserLevel(RoomLevels(authEvents), events[1].sender) >= c[1]
           /\ UserLevel(RoomLevels(authEvents), events[1].sender) >= c[2]) =>
    LET old == RoomLevels(authEvents)
        new == events[1].content.levels
        senderLevel == UserLevel(old, events[1].sender)
    IN allowed.err = "nil" <=>
         \A c \in UserLevelChanges(old, new) :
           \/ c[2] = c[3]
           \/ c[1] = events[1].sender /\ c[3] <= senderLevel
           \/ c[1] # events[1].sender /\ c[3] <= senderLevel /\ c[2] < senderLevel

\* A sender lowered their own level and the level of a user below them.
C22_Witness ==
  /\ phase = "checked"
  /\ ComparesPowerLevels(events[1], authEvents)
  /\ allowed.err = "nil"
  /\ \E c \in UserLevelChanges(RoomLevels(authEvents), events[1].content.levels) :
       c[1] = events[1].sender /\ c[3] < c[2]
  /\ \E c \in UserLevelChanges(RoomLevels(authEvents), events[1].content.levels) :
       c[1] # events[1].sender /\ c[3] # c[2]


\* C23 as claimed: a redaction that passes the common checks is allowed
\* exactly when the domain of the sender is the domain of the id of the
\* redacted event or the level of the sender is at least redact_level.
C23_RedactionAllowedExactly ==
  (/\ phase = "checked"
   /\ events[1].type = "m.room.redaction"
   /\ DefaultEventAllowed(events[1], authEvents).err = "nil") =>
    (allowed.err = "nil" <=>
       \/ DomainFromID(events[1].sender).domain = DomainFromID(events[1].redacts).domain
       \/ UserLevel(RoomLevels(authEvents), events[1].sender)
            >= RoomLevels(authEvents).redactLevel)

\* C23: a redaction that passes the common checks is allowed exactly when
\* the id of the redacted event has a domain and either that domain is the
\* domain of the sender or the level of the sender is at least
\* redact_level.
C23_RedactionOfIDWithDomain ==
  (/\ phase = "checked"
   /\ events[1].type = "m.room.redaction"
   /\ DefaultEventAllowed(events[1], authEvents).err = "nil") =>
    (allowed.err = "nil" <=>
       /\ \E i \in 1..Len(events[1].redacts) : events[1].redacts[i] = ":"
       /\ \/ DomainFromID(events[1].sender).domain = DomainFromID(events[1].redacts).domain
          \/ UserLevel(RoomLevels(authEvents), events[1].sender)
               >= RoomLevels(authEvents).redactLevel)

\* A sender below redact_level redacted an event of their own domain.
C23_Witness ==
  /\ phase = "checked"
  /\ events[1].type = "m.room.redaction"
  /\ allowed.err = "nil"
  /\ DomainFromID(events[1].sender).domain = DomainFromID(events[1].redacts).domain
  /\ UserLevel(RoomLevels(authEvents), events[1].sender) < RoomLevels(authEvents).redactLevel


\* C24: an event of a type other than m.room.create, m.room.member and
\* m.room.aliases whose state_key begins with "@" and is not its sender is
\* denied, whatever the level of the sender.
C24_StateKeyOfOtherUserDenied ==
  (/\ phase = "checked"
   /\ events[1].type \notin {"m.room.create", "m.room.member", "m.room.aliases"}
   /\ events[1].stateKey.present
   /\ Len(events[1].stateKey.v) > 0
   /\ events[1].stateKey.v[1] = "@"
   /\ events[1].stateKey.v # events[1].sender) => allowed.err # "nil"

\* A joined sender at level 100 was denied a power levels event of the
\* room whose state_key is another user.
C24_Witness ==
  /\ phase = "checked"
  /\ events[1].type = "m.room.power_levels"
  /\ events[1].stateKey.present
  /\ events[1].stateKey.v # events[1].sender
  /\ Len(events[1].stateKey.v) > 0
  /\ events[1].stateKey.v[1] = "@"
  /\ allowed.err = "NotAllowed"
  /\ authEvents.failing = {}
  /\ authEvents.create # NilEvent
  /\ events[1].roomID = authEvents.create.roomID
  /\ MembershipOf(authEvents, events[1].sender) = "join"
  /\ UserLevel(RoomLevels(authEvents), events[1].sender) = 100


\* C25: an event of a type other than m.room.create, m.room.member and
\* m.room.aliases is allowed only if its room_id is that of the create
\* event, its sender is joined, and the level of its sender is at least
\* the level of its type: the level set for the type, else state_default
\* for a state event and event_default for the others.
C25_CommonChecksNeeded ==
  (/\ phase = "checked"
   /\ events[1].type \notin {"m.room.create", "m.room.member", "m.room.aliases"}
   /\ allowed.err = "nil") =>
    LET event == events[1]
        levels == RoomLevels(authEvents)
        required == IF event.type \in DOMAIN levels.eventLevels
                    THEN levels.eventLevels[event.type]
                    ELSE IF event.stateKey.present THEN levels.stateDefaultLevel
                    ELSE levels.eventDefaultLevel
    IN /\ authEvents.create # NilEvent
       /\ event.roomID = authEvents.create.roomID
       /\ MembershipOf(authEvents, event.sender) = "join"
       /\ UserLevel(levels, event.sender) >= required

\* An event of a type with a level of its own, above event_default, was
\* accepted from a sender at that level.
C25_Witness ==
  /\ phase = "checked"
  /\ events[1].type = "m.room.message"
  /\ allowed.err = "nil"
  /\ events[1].type \in DOMAIN RoomLevels(authEvents).eventLevels
  /\ UserLevel(RoomLevels(authEvents), events[1].sender)
       = RoomLevels(authEvents).eventLevels[events[1].type]
  /\ RoomLevels(authEvents).eventLevels[events[1].type] > RoomLevels(authEvents).eventDefaultLevel


\* C26: an m.room.aliases event is allowed exactly when its room_id is the
\* room_id of the create event, the create event admits the domain of its
\* sender, and its state_key is present and is the domain of its sender;
\* Allowed asks for no member and no power levels event.
C26_AliasAllowedExactly ==
  (phase = "checked" /\ events[1].type = "m.room.aliases") =>
    LET event == events[1]
        create == authEvents.create
        senderDomain == DomainFromID(event.sender)
    IN /\ allowed.reads \subseteq {Read("m.room.create", EmptyString)}
       /\ allowed.err = "nil" <=>
            /\ "create" \notin authEvents.failing
            /\ create # NilEvent
            /\ create.content.parses
            /\ event.roomID = create.roomID
            /\ senderDomain.err = "nil"
            /\ \/ create.content.federate # "false"
               \/ senderDomain.domain = DomainFromID(create.sender).domain
            /\ event.stateKey.present
            /\ event.stateKey.v = senderDomain.domain


\* C27: bulkSelectStateBlockNIDs, when the database returns no error,
\* fails exactly when one of the requested NIDs is not stored, and a
\* success returns one entry for each requested NID, by ascending snapshot
\* NID, each with the list of blocks stored for it.
C27_BulkSelectAllOrFail ==
  (snapCall.op = "bulkSelectStateBlockNIDs" /\ snapCall.err # "DBError") =>
    LET stateNIDs == snapCall.stateNIDs
        stored == {row.state_snapshot_nid : row \in snapshots}
        results == snapCall.results
    IN /\ snapCall.err = "nil" <=> \A i \in 1..Len(stateNIDs) : stateNIDs[i] \in stored
       /\ snapCall.err = "nil" =>
            /\ Len(results) = Len(stateNIDs)
            /\ \A i \in 1..Len(stateNIDs) :
                 \E k \in 1..Len(results) : results[k].StateSnapshotNID = stateNIDs[i]
            /\ \A k \in 1..Len(results) :
                 /\ k > 1 => results[k - 1].StateSnapshotNID < results[k].StateSnapshotNID
                 /\ \E row \in snapshots :
                      /\ row.state_snapshot_nid = results[k].StateSnapshotNID
                      /\ row.state_block_nids = results[k].StateBlockNIDs


\* C28: every snapshot NID insertState returns differs from every NID it
\* returned before, also for the same room and the same list of blocks,
\* and a later bulkSelectStateBlockNIDs of that NID returns the list that
\* was inserted.
C28_InsertStateAllocatesFreshNID ==
  /\ \A i, j \in 1..Len(insertedStates) :
       i # j => insertedStates[i].stateNID # insertedStates[j].stateNID
  /\ (snapCall.op = "bulkSelectStateBlockNIDs" /\ snapCall.err = "nil") =>
       \A k \in 1..Len(snapCall.results), i \in 1..Len(insertedStates) :
         snapCall.results[k].StateSnapshotNID = insertedStates[i].stateNID
           => snapCall.results[k].StateBlockNIDs = insertedStates[i].stateBlockNIDs

\* The same room and list were inserted twice, and the second NID was
\* selected with the first.
C28_Witness ==
  /\ Len(insertedStates) = 2
  /\ insertedStates[1].roomNID = insertedStates[2].roomNID
  /\ insertedStates[1].stateBlockNIDs = insertedStates[2].stateBlockNIDs
  /\ insertedStates[1].stateBlockNIDs # <<>>
  /\ snapCall.op = "bulkSelectStateBlockNIDs"
  /\ snapCall.err = "nil"
  /\ Len(snapCall.results) = 2
  /\ snapCall.results[2].StateSnapshotNID = insertedStates[2].stateNID

\* C29: the state_block_nids of every stored snapshot are sorted ascending
\* by block NID.
C29_StoredListsAreSorted ==
  \A row \in snapshots :
    \A i, j \in 1..Len(row.state_block_nids) :
      i < j => row.state_block_nids[i] <= row.state_block_nids[j]

\* The call of p drew a room NID and its InsertNewRoom returned an error;
\* roomNID[p] is the NID that was drawn.
InsertFailed(p) ==
  /\ pc[p] \in {"unlock", "done"}
  /\ stats[p].inserts = 1
  /\ result[p] = "db_error"

RegistryWellFormed ==
  /\ \A r \in RoomIDs : rooms[r] # 0 => rooms[r] >= 1
  /\ \A r1, r2 \in RoomIDs : (r1 # r2 /\ rooms[r1] # 0) => rooms[r1] # rooms[r2]
  /\ \A p \in Procs : InsertFailed(p) => \A r \in RoomIDs : rooms[r] # roomNID[p]

RegisteredNIDKept == \A r \in RoomIDs : rooms[r] # 0 => rooms'[r] = rooms[r]

\* C30: a room_id has at most one room NID, no two room_ids have the same
\* NID, every NID of a room is at least 1, the NID of a registered room_id
\* never changes, and the NID drawn for an InsertNewRoom that failed is the
\* NID of no room.
C30_RoomRegistry == []RegistryWellFormed /\ [][RegisteredNIDKept]_vars

\* An InsertNewRoom failed, and every room was registered afterwards, each
\* with a NID of its own drawn after the one of the failed insert.
C30_Witness ==
  /\ \E p \in Procs : InsertFailed(p) /\ \A r \in RoomIDs : rooms[r] > roomNID[p]
  /\ \A r1, r2 \in RoomIDs : r1 # r2 => rooms[r1] # rooms[r2]

\* C31: Handle never returns success for an input whose event was not
\* persisted: a call that returned nil assigned an event NID, for Outlier
\* inputs as for the other kinds.
C31_SuccessMeansPersisted ==
  \A p \in Procs : result[p] = "ok" => (stats[p].eventNIDs >= 1 /\ eventSeq > 1)

\* Whether the event is a member event for a user whose membership in the
\* auth events is ban.
TargetsBanned(event, auth) ==
  /\ event.type = "m.room.member"
  /\ event.stateKey.present
  /\ MembershipOf(auth, event.stateKey.v) = "ban"

\* Whether the event keeps the ban of its target or is the lifting of the
\* ban: a leave sent by another user who is joined and whose level is at
\* least ban_level.
KeepsBanOrUnbans(event, auth) ==
  /\ event.stateKey.v # event.sender
  /\ \/ event.content.membership = "ban"
     \/ /\ event.content.membership = "leave"
        /\ MembershipOf(auth, event.sender) = "join"
        /\ UserLevel(RoomLevels(auth), event.sender) >= RoomLevels(auth).banLevel

\* C32: an allowed member event for a banned user is a leave sent by a
\* different, joined user whose level is at least ban_level (or another
\* ban): no event of the banned user changes their own membership and no
\* other user sets them to join or invite.
C32_BanLiftedOnlyByUnban ==
  (phase = "checked" /\ allowed.err = "nil" /\ TargetsBanned(events[1], authEvents))
    => KeepsBanOrUnbans(events[1], authEvents)

\* C32 as amended: the same, except for the join of the creator of the
\* room whose only prev_event is the create event, which is allowed
\* whatever the membership of the creator is.
C32_BanLiftedByUnbanOrFirstJoin ==
  (/\ phase = "checked" /\ allowed.err = "nil"
   /\ TargetsBanned(events[1], authEvents)
   /\ ~IsFirstJoin(events[1], authEvents))
    => KeepsBanOrUnbans(events[1], authEvents)

\* The ban of a user was lifted by a sender whose level is exactly
\* ban_level and below kick_level.
C32_Witness ==
  /\ phase = "checked"
  /\ allowed.err = "nil"
  /\ TargetsBanned(events[1], authEvents)
  /\ events[1].content.membership = "leave"
  /\ UserLevel(RoomLevels(authEvents), events[1].sender) = RoomLevels(authEvents).banLevel

\* C33: once the room has a power levels event, an accepted power levels
\* event changes the level of no user (the sender included, and users who
\* get the user default) to a level above the one its sender holds in the
\* power levels it replaces; hence the highest level of a user does not
\* increase and the sender does not raise their own level.
C33_NoLevelAboveSender ==
  (/\ phase = "checked"
   /\ allowed.err = "nil"
   /\ events[1].type = "m.room.power_levels"
   /\ authEvents.powerLevels # NilEvent) =>
    LET old == RoomLevels(authEvents)
        new == events[1].content.levels
        senderLevel == UserLevel(old, events[1].sender)
        users == AuthUsers \cup DOMAIN old.userLevels \cup DOMAIN new.userLevels
    IN /\ \A u \in users :
            UserLevel(new, u) # UserLevel(old, u) => UserLevel(new, u) <= senderLevel
       /\ \A u \in users : \E v \in users : UserLevel(new, u) <= UserLevel(old, v)
       /\ UserLevel(new, events[1].sender) <= senderLevel

\* A sender who does not hold the highest level of the room raised the
\* level of a user in an accepted power levels event.
C33_Witness ==
  /\ phase = "checked"
  /\ allowed.err = "nil"
  /\ events[1].type = "m.room.power_levels"
  /\ authEvents.powerLevels # NilEvent
  /\ \E u \in AuthUsers :
       UserLevel(events[1].content.levels, u) > UserLevel(RoomLevels(authEvents), u)
  /\ \E v \in AuthUsers :
       UserLevel(RoomLevels(authEvents), v)
         > UserLevel(RoomLevels(authEvents), events[1].sender)

\* The distinct elements of the sorted list a, in ascending order.
RECURSIVE DistinctAscending(_)
DistinctAscending(a) ==
  IF Len(a) <= 1 THEN a
  ELSE IF a[1] = a[2] THEN DistinctAscending(Tail(a))
  ELSE <<a[1]>> \o DistinctAscending(Tail(a))

\* C34: either unique helper, given a sorted list of strings, returns the
\* list of its distinct elements in ascending order: the same set of
\* values, no value twice, none lost; the empty list for the empty list.
C34_UniqueReturnsDistinctAscending ==
  uniqueCall.fn # "none" =>
    /\ uniqueCall.result = DistinctAscending(uniqueCall.a)
    /\ Elements(uniqueCall.result) = Elements(uniqueCall.a)
    /\ StrictlySorted(uniqueCall.result)

\* eventauth's unique was given a list of three distinct values in which
\* the first value comes twice.
C34_Witness ==
  /\ uniqueCall.fn = "eventauth.unique"
  /\ Len(uniqueCall.a) = 2 * MaxBatch
  /\ Len(uniqueCall.result) = 3
  /\ uniqueCall.a[1] = uniqueCall.a[2]

====
